---- MODULE Spec2Model ----
(***************************************************************************)
(* The backend of the family birthday calendar: the users, sessions,       *)
(* password_set_tokens and updates tables of backend/src/db.ts, the        *)
(* request pipeline of backend/src/index.ts (authMiddleware, the CSRF      *)
(* mount, requireAuth, requireAdmin) and the handlers of /api/auth,        *)
(* /api/me, /api/admin and /api/updates.                                   *)
(* A handler that awaits argon2 is two steps: the part before the await,   *)
(* which leaves a continuation in `pending`, and the part after it.        *)
(* Everything between two awaits runs in one step (one Node.js turn).      *)
(* The step that ends a request puts its response in `resp`; Respond       *)
(* hands it to the client before the next turn of the event loop.          *)
(* `served` counts the requests received since the server started;         *)
(* `issued` records for whom each session id was issued and `consumed`     *)
(* the setup tokens a set-password has succeeded with.                     *)
(* The created_at columns, which no handler modelled here reads, and the   *)
(* username and display name echoed by login and set-password are left out,*)
(* and so are the rate limiters, whose limits (25 logins, and more for the *)
(* other requests, per window) no run of MaxRequests requests reaches.     *)
(***************************************************************************)
EXTENDS Integers, FiniteSets, Sequences, Bags, TLC

\* ---- bounds of the model ------------------------------------------------
MaxRequests == 3
MaxTime == 2
MaxPending == 2
SessionTtl == 1

\* ---- program constants (the clock's unit is the 15 minutes of a token) --
TokenTtl == 1
MinPasswordLen == 12
MaxPasswordLen == 256

\* NULL of SQLite and null of JSON; a value that may be NULL is a tuple or a record
Null == <<>>
At(t) == <<t>>

VARIABLES users, sessions, tokens, updates, now, nextUid, nextSid, nextTid, nextUpd,
          pending, resp, served, issued, consumed

vars == <<users, sessions, tokens, updates, now, nextUid, nextSid, nextTid, nextUpd,
          pending, resp, served, issued, consumed>>

\* ---- values requests carry ----------------------------------------------
PwBootstrap == [key |-> "change-me-please-1234", len |-> 21]
PwHorse == [key |-> "correct horse battery", len |-> 21]
PwShort == [key |-> "elevenchars", len |-> 11]
PwLong == [key |-> "two hundred and fifty-seven characters", len |-> 257]
Passwords == {PwBootstrap, PwHorse, PwShort, PwLong}
\* the passwords the checked specifications submit to login, and as new passwords
LoginPasswords == {PwBootstrap, PwHorse, PwLong}
NewPasswords == {PwHorse, PwShort, PwLong}

BootstrapAdminUsername == "admin"
LoginNames == {"admin", "JANE", "nobody"}
Birthday == <<"1990-02-28">>
Venmo == <<"@jane">>
DisplayName == <<"Jane D">>

\* lower(username) of SQLite, toLowerCase() of zod
Lower(s) ==
  IF s = "JANE" THEN "jane" ELSE IF s \in {"Admin", "ADMIN"} THEN "admin" ELSE s

\* argon2.hash
Hash(p) == [alg |-> "argon2id", of |-> p.key]

\* a verification that accepts every password
VerifyAny(h, p) == TRUE

\* argon2.verify
Verify(h, p) == h = Hash(p)

\* crypto.randomBytes(32): the n-th session id, CSRF token and setup token
SidOf(n) == <<"sid", n>>
CsrfOf(n) == <<"csrf", n>>
TokOf(n) == <<"tok", n>>
\* nanoid(): the n-th update id
UpdOf(n) == <<"upd", n>>

\* what a client can send: nothing, or a value some response has carried
Cookies == {Null} \cup {SidOf(n) : n \in 1..(nextSid - 1)}
\* the x-csrf-token sent with a cookie: none, the token issued with that
\* cookie, or the token issued with another one
Headers(cookie) ==
  {Null} \cup {CsrfOf(n) : n \in {k \in 1..(nextSid - 1) :
                                  cookie \in {Null, SidOf(k), SidOf((k % (nextSid - 1)) + 1)}}}
SetupTokens == {TokOf(n) : n \in 0..(nextTid - 1)}
UserIds == 1..nextUid

\* ---- responses ------------------------------------------------------------
NoResp == [op |-> "none", status |-> 0, error |-> "none", user |-> Null, uid |-> 0,
           needsSetup |-> FALSE, lastLoginAt |-> Null, needsPasswordSet |-> FALSE,
           setupToken |-> Null, cookie |-> Null, csrfToken |-> Null]
Reply(op, status, error) == [NoResp EXCEPT !.op = op, !.status = status, !.error = error]

\* the continuations of the handlers suspended in an await
Suspend(r) == pending (+) SetToBag({r})
Resume(r) == pending (-) SetToBag({r})
CanSuspend == BagCardinality(pending) < MaxPending

\* ---- auth.ts ----------------------------------------------------------------
\* the JOIN of authMiddleware: the session row of the cookie and its user
JoinRows(cookie) == {s \in sessions : s.id = cookie /\ s.user_id \in DOMAIN users}

\* authMiddleware, the sessions table after it: an expired row is deleted
AuthSessions(cookie) ==
  {s \in sessions : ~(s \in JoinRows(cookie) /\ s.expires_at <= now)}

\* a lookup that lets a session live through its last instant
ReqSessionLate(cookie) ==
  LET live == {s \in JoinRows(cookie) : s.expires_at >= now} IN
  IF live # {} THEN CHOOSE s \in live : TRUE ELSE Null

\* authMiddleware, req.session: the row when it exists and has not expired
ReqSession(cookie) ==
  LET live == {s \in JoinRows(cookie) : s.expires_at > now} IN
  IF live # {} THEN CHOOSE s \in live : TRUE ELSE Null

\* authMiddleware, req.user: the users row as it is at lookup time
UserView(id, row) ==
  [id |-> id, username |-> row.username, displayName |-> row.display_name,
   role |-> row.role, birthday |-> row.birthday, venmo |-> row.venmo,
   lastLoginAt |-> row.last_login_at]
ReqUser(cookie) ==
  LET sess == ReqSession(cookie) IN
  IF sess = Null THEN Null ELSE UserView(sess.user_id, users[sess.user_id])

SafeMethods == {"GET", "HEAD", "OPTIONS"}
CsrfExemptPaths == {"/auth/login", "/auth/logout", "/auth/set-password"}

\* a check that only asks for the header to be present
RequireCsrfPresence(method, sess, header) ==
  IF method \in SafeMethods THEN 0
  ELSE IF sess = Null THEN 401
  ELSE IF header = Null THEN 403
  ELSE 0

\* requireCsrf: 0 stands for next()
RequireCsrf(method, sess, header) ==
  IF method \in SafeMethods THEN 0
  ELSE IF sess = Null THEN 401
  ELSE IF header = Null \/ header # sess.csrf_token THEN 403
  ELSE 0

\* the CSRF mount of index.ts
CsrfMount(method, path, sess, header) ==
  IF path \in CsrfExemptPaths THEN 0 ELSE RequireCsrf(method, sess, header)

RequireAuth(cookie) == IF ReqUser(cookie) = Null THEN 401 ELSE 0
\* a guard that lets every session through
RequireAdminAnySession(cookie) == IF ReqUser(cookie) = Null THEN 403 ELSE 0

RequireAdmin(cookie) ==
  LET user == ReqUser(cookie) IN
  IF user = Null \/ user.role # "admin" THEN 403 ELSE 0

\* the middleware chain in front of a handler: 0, or the status that ends it
Gate(method, path, cookie, header, admin) ==
  LET csrf == CsrfMount(method, path, ReqSession(cookie), header) IN
  IF csrf # 0 THEN csrf
  ELSE IF RequireAuth(cookie) # 0 THEN 401
  ELSE IF admin /\ RequireAdmin(cookie) # 0 THEN 403
  ELSE 0
GateError(method, path, cookie, header) ==
  IF CsrfMount(method, path, ReqSession(cookie), header) = 403 THEN "csrf"
  ELSE IF ReqUser(cookie) = Null THEN "unauthorized"
  ELSE "forbidden"

\* newSession: the row inserted for userId
NewSessionRow(userId) ==
  [id |-> SidOf(nextSid), user_id |-> userId, csrf_token |-> CsrfOf(nextSid),
   expires_at |-> now + SessionTtl]

\* a revocation that deletes nothing
RevokeNone(ss, userId) == ss

\* DELETE FROM sessions WHERE user_id = ?
RevokeAll(ss, userId) == {s \in ss : s.user_id # userId}

\* a logout that deletes no row
ClearSessionOfNobody(ss, sessionId) == ss

\* clearSession: DELETE FROM sessions WHERE id = ?
ClearSession(ss, sessionId) == {s \in ss : s.id # sessionId}

\* the onboarding flag, as every handler computes it
NeedsSetup(role, lastLoginAt, birthday, venmo) ==
  role = "user" /\ lastLoginAt = Null /\ (birthday = Null \/ venmo = Null)

\* ---- db.ts: the store after getDb() and bootstrapAdminIfNeeded ------------
BootstrapRow ==
  [username |-> BootstrapAdminUsername, display_name |-> <<"Administrator">>,
   password_hash |-> Hash(PwBootstrap), must_set_password |-> 0,
   role |-> "admin", birthday |-> Null, venmo |-> Null, last_login_at |-> Null]

\* getDb() opens the database file an earlier run of the server left: the
\* bootstrapped administrator, who may have logged in, and possibly a user the
\* administrator created without or with a password, who may have logged in
\* and, without a password, may hold a setup token.
\* Sessions and tokens that had expired are deleted on startup.
StoredToken(n, userId) == [id |-> TokOf(n), user_id |-> userId, expires_at |-> 1 + TokenTtl]
StoredSession(n, userId) ==
  [id |-> SidOf(n), user_id |-> userId, csrf_token |-> CsrfOf(n),
   expires_at |-> 1 + SessionTtl]
JaneRows ==
  {[username |-> "jane", display_name |-> Null, password_hash |-> h,
    must_set_password |-> IF h = Null THEN 1 ELSE 0, role |-> "user",
    birthday |-> Null, venmo |-> Null, last_login_at |-> Null]
     : h \in {Null, Hash(PwHorse)}}

Init ==
  /\ now = 1
  /\ nextTid = 2
  /\ pending = EmptyBag
  /\ resp = NoResp
  /\ served = 0
  /\ consumed = {}
  /\ updates = {}
  /\ nextUpd = 1
  /\ \E adminIn \in BOOLEAN, others \in {<<>>} \cup {<<j>> : j \in JaneRows},
        janeIn \in BOOLEAN :
       /\ janeIn => (others # <<>> /\ others[1].password_hash # Null)
       /\ tokens \in {{}} \cup (IF others # <<>> /\ ~janeIn /\ others[1].password_hash = Null
                               THEN {{StoredToken(1, 2)}} ELSE {})
       /\ users = (1 :> [BootstrapRow EXCEPT
                           !.last_login_at = IF adminIn THEN At(1) ELSE Null])
                  @@ (IF others = <<>> THEN <<>> ELSE (2 :> others[1]))
       /\ nextUid = IF others = <<>> THEN 2 ELSE 3
       /\ sessions = (IF adminIn THEN {StoredSession(1, 1)} ELSE {})
                     \cup (IF janeIn THEN {StoredSession(2, 2)} ELSE {})
       /\ issued = {[id |-> SidOf(n), user_id |-> n] :
                       n \in (IF adminIn THEN {1} ELSE {}) \cup (IF janeIn THEN {2} ELSE {})}
       /\ nextSid = 3

\* Date.now() moves on
Tick ==
  /\ resp = NoResp
  /\ now < MaxTime
  /\ now' = now + 1
  /\ UNCHANGED <<users, sessions, tokens, updates, nextUid, nextSid, nextTid, nextUpd,
               pending, resp>>

\* res.json: the response leaves the server
Respond ==
  /\ resp # NoResp
  /\ resp' = NoResp
  /\ UNCHANGED <<users, sessions, tokens, now, updates, nextUpd, nextUid, nextSid, nextTid, pending>>

\* ---- POST /api/auth/login ---------------------------------------------------
LoginSchemaOk(name, pw) == name # "" /\ pw.len <= MaxPasswordLen

\* a login that issues no token
IssueNoToken(userId) == tokens

\* an issue that leaves the user's earlier tokens in place
IssueTokenKeepsEarlier(userId) ==
  tokens \cup {[id |-> TokOf(nextTid), user_id |-> userId, expires_at |-> now + TokenTtl]}

\* the token a login issues to a user without a password
IssueToken(userId) ==
  {t \in tokens : t.user_id # userId}
    \cup {[id |-> TokOf(nextTid), user_id |-> userId, expires_at |-> now + TokenTtl]}

NoPassword(row) == row.must_set_password = 1 \/ row.password_hash = Null

\* what the handler keeps of the row it read before the await: the id and the
\* onboarding flag, which it computes after the await from that row
Snapshot(id, row) ==
  [id |-> id,
   needsSetup |-> NeedsSetup(row.role, row.last_login_at, row.birthday, row.venmo)]

\* the response of a login or set-password that issued a session
SessionReply(op, u) ==
  [Reply(op, 200, "none") EXCEPT
     !.uid = u.id, !.needsSetup = u.needsSetup,
     !.lastLoginAt = IF u.needsSetup THEN Null ELSE At(now),
     !.cookie = SidOf(nextSid), !.csrfToken = CsrfOf(nextSid)]

Login(cookie, name, pw) ==
  /\ resp = NoResp
  /\ sessions' = AuthSessions(cookie)
  /\ UNCHANGED <<users, now, updates, nextUpd, nextUid, nextSid>>
  /\ IF ~LoginSchemaOk(name, pw)
     THEN /\ resp' = Reply("login", 400, "invalid_request")
          /\ UNCHANGED <<tokens, nextTid, pending>>
     ELSE LET m == {id \in DOMAIN users : Lower(users[id].username) = Lower(name)} IN
       IF m = {}
       THEN /\ resp' = Reply("login", 401, "invalid_credentials")
            /\ UNCHANGED <<tokens, nextTid, pending>>
       ELSE \E id \in m :
         IF NoPassword(users[id])
         THEN /\ tokens' = IssueToken(id)
              /\ nextTid' = nextTid + 1
              /\ resp' = [Reply("login", 200, "none") EXCEPT
                            !.needsPasswordSet = TRUE, !.setupToken = TokOf(nextTid)]
              /\ UNCHANGED pending
         ELSE \* argon2.verify gets the hash read here
              /\ CanSuspend
              /\ pending' = Suspend([op |-> "login", u |-> Snapshot(id, users[id]),
                                     ok |-> Verify(users[id].password_hash, pw)])
              /\ UNCHANGED <<tokens, nextTid, resp>>

\* a login that leaves last_login_at as it is
StampLoginNever(us, id, t) == us

\* UPDATE users SET last_login_at = ? WHERE id = ?
StampLogin(us, id, t) ==
  IF id \in DOMAIN us THEN [us EXCEPT ![id].last_login_at = At(t)] ELSE us

\* a login that leaves the user's earlier sessions in place
LoginResumeKeepsSessions(r) ==
  /\ resp = NoResp
  /\ r.op = "login"
  /\ pending' = Resume(r)
  /\ UNCHANGED <<tokens, now, updates, nextUpd, nextUid, nextTid>>
  /\ IF ~r.ok \/ r.u.id \notin DOMAIN users
     THEN /\ resp' = Reply("login", 401, "invalid_credentials")
          /\ UNCHANGED <<users, sessions, nextSid>>
     ELSE /\ sessions' = sessions \cup {NewSessionRow(r.u.id)}
          /\ nextSid' = nextSid + 1
          /\ users' = IF r.u.needsSetup THEN users ELSE StampLogin(users, r.u.id, now)
          /\ resp' = SessionReply("login", r.u)

\* the login after `await argon2.verify`
LoginResume(r) ==
  /\ resp = NoResp
  /\ r.op = "login"
  /\ pending' = Resume(r)
  /\ UNCHANGED <<tokens, now, updates, nextUpd, nextUid, nextTid>>
  /\ LET u == r.u IN
     IF ~r.ok
     THEN /\ resp' = Reply("login", 401, "invalid_credentials")
          /\ UNCHANGED <<users, sessions, nextSid>>
     ELSE IF u.id \notin DOMAIN users
     THEN \* the INSERT of newSession violates the foreign key: the error handler
          /\ sessions' = RevokeAll(sessions, u.id)
          /\ resp' = Reply("login", 500, "internal_error")
          /\ UNCHANGED <<users, nextSid>>
     ELSE /\ sessions' = RevokeAll(sessions, u.id) \cup {NewSessionRow(u.id)}
          /\ nextSid' = nextSid + 1
          /\ users' = IF u.needsSetup THEN users ELSE StampLogin(users, u.id, now)
          /\ resp' = SessionReply("login", u)

\* ---- POST /api/auth/set-password ------------------------------------------
SetPasswordSchemaOk(tok, pw) ==
  tok # Null /\ pw.len >= MinPasswordLen /\ pw.len <= MaxPasswordLen

\* an expiry test that lets a token live through its last instant
TokenExpiredLate(token, t) == token.expires_at < t

\* token.expires_at <= Date.now()
TokenExpired(token, t) == token.expires_at <= t

\* a deletion that deletes nothing
DeleteTokenKeeps(ts, id) == ts

\* DELETE FROM password_set_tokens WHERE id = ?
DeleteToken(ts, id) == {t \in ts : t.id # id}

SetPassword(cookie, tok, pw) ==
  /\ resp = NoResp
  /\ sessions' = AuthSessions(cookie)
  /\ UNCHANGED <<users, now, updates, nextUpd, nextUid, nextSid, nextTid>>
  /\ IF ~SetPasswordSchemaOk(tok, pw)
     THEN /\ resp' = Reply("set-password", 400, "invalid_request")
          /\ UNCHANGED <<tokens, pending>>
     ELSE IF ~\E t \in tokens : t.id = tok
     THEN /\ resp' = Reply("set-password", 401, "invalid_setup_token")
          /\ UNCHANGED <<tokens, pending>>
     ELSE LET token == CHOOSE t \in tokens : t.id = tok IN
       IF TokenExpired(token, now) \/ token.user_id \notin DOMAIN users
       THEN /\ tokens' = DeleteToken(tokens, token.id)
            /\ resp' = Reply("set-password", 401, "invalid_setup_token")
            /\ UNCHANGED pending
       ELSE /\ CanSuspend
            /\ pending' = Suspend([op |-> "set-password", token |-> token.id,
                                   u |-> Snapshot(token.user_id, users[token.user_id]),
                                   hash |-> Hash(pw)])
            /\ UNCHANGED <<tokens, resp>>

\* an update of the hash that leaves the flag for a later statement
StorePasswordKeepsFlag(us, id, hash) ==
  IF id \in DOMAIN us THEN [us EXCEPT ![id].password_hash = hash] ELSE us

\* UPDATE users SET password_hash = ?, must_set_password = 0 WHERE id = ?
StorePassword(us, id, hash) ==
  IF id \in DOMAIN us
  THEN [us EXCEPT ![id].password_hash = hash, ![id].must_set_password = 0]
  ELSE us

\* the set-password after `await argon2.hash`
SetPasswordResume(r) ==
  /\ resp = NoResp
  /\ r.op = "set-password"
  /\ pending' = Resume(r)
  /\ UNCHANGED <<now, updates, nextUpd, nextUid, nextTid>>
  /\ LET u == r.u
         stored == StorePassword(users, u.id, r.hash)
     IN
     /\ tokens' = DeleteToken(tokens, r.token)
     /\ IF u.id \notin DOMAIN users
        THEN \* the INSERT of newSession violates the foreign key: the error handler
             /\ sessions' = RevokeAll(sessions, u.id)
             /\ users' = stored
             /\ resp' = Reply("set-password", 500, "internal_error")
             /\ UNCHANGED nextSid
        ELSE /\ sessions' = RevokeAll(sessions, u.id) \cup {NewSessionRow(u.id)}
             /\ nextSid' = nextSid + 1
             /\ users' = IF u.needsSetup THEN stored ELSE StampLogin(stored, u.id, now)
             /\ resp' = SessionReply("set-password", u)

\* ---- POST /api/auth/logout -------------------------------------------------
Logout(cookie, header) ==
  /\ resp = NoResp
  /\ UNCHANGED <<users, tokens, now, updates, nextUpd, nextUid, nextSid, nextTid, pending>>
  /\ IF CsrfMount("POST", "/auth/logout", ReqSession(cookie), header) # 0
     THEN /\ resp' = Reply("logout",
                          CsrfMount("POST", "/auth/logout", ReqSession(cookie), header),
                          GateError("POST", "/auth/logout", cookie, header))
          /\ sessions' = AuthSessions(cookie)
     ELSE /\ sessions' = IF cookie # Null THEN ClearSession(AuthSessions(cookie), cookie)
                         ELSE AuthSessions(cookie)
          /\ resp' = Reply("logout", 200, "none")

\* ---- GET /api/me ------------------------------------------------------------
GetMe(cookie) ==
  /\ resp = NoResp
  /\ sessions' = AuthSessions(cookie)
  /\ UNCHANGED <<users, tokens, now, updates, nextUpd, nextUid, nextSid, nextTid, pending>>
  /\ IF Gate("GET", "/me", cookie, Null, FALSE) # 0
     THEN resp' = Reply("me", Gate("GET", "/me", cookie, Null, FALSE),
                        GateError("GET", "/me", cookie, Null))
     ELSE LET u == ReqUser(cookie) IN
          resp' = [Reply("me", 200, "none") EXCEPT
                     !.user = u, !.uid = u.id, !.lastLoginAt = u.lastLoginAt,
                     !.needsSetup = NeedsSetup(u.role, u.lastLoginAt, u.birthday, u.venmo)]

\* ---- PUT /api/me/profile ----------------------------------------------------
\* a request body is a record of the fields that are present
Field(body, f) == IF f \in DOMAIN body THEN body[f] ELSE Null

\* an update that overwrites with whatever the body holds
CoalesceOverwrite(a, b) == a

\* COALESCE(a, b) of SQLite
Coalesce(a, b) == IF a # Null THEN a ELSE b

ProfileBodies ==
  {<<>>, [birthday |-> Birthday], [venmo |-> Venmo], [displayName |-> DisplayName],
   [birthday |-> Birthday, venmo |-> Venmo]}

ProfileSchemaOk(body) == DOMAIN body # {}

\* UPDATE users SET birthday = COALESCE(@birthday, birthday), ... WHERE id = @id
MergeProfile(row, body) ==
  [row EXCEPT !.birthday = Coalesce(Field(body, "birthday"), row.birthday),
              !.venmo = Coalesce(Field(body, "venmo"), row.venmo),
              !.display_name = Coalesce(Field(body, "displayName"), row.display_name)]

\* a profile update that never stamps
FinalizeNever(row, t) == row

\* the first-login finalization of the profile update
Finalize(row, t) ==
  IF row.role = "user" /\ row.last_login_at = Null
     /\ row.birthday # Null /\ row.venmo # Null
  THEN [row EXCEPT !.last_login_at = At(t)]
  ELSE row

PutProfile(cookie, header, body) ==
  /\ resp = NoResp
  /\ sessions' = AuthSessions(cookie)
  /\ UNCHANGED <<tokens, now, updates, nextUpd, nextUid, nextSid, nextTid, pending>>
  /\ IF Gate("PUT", "/me/profile", cookie, header, FALSE) # 0
     THEN /\ resp' = Reply("profile", Gate("PUT", "/me/profile", cookie, header, FALSE),
                          GateError("PUT", "/me/profile", cookie, header))
          /\ UNCHANGED users
     ELSE IF ~ProfileSchemaOk(body)
     THEN /\ resp' = Reply("profile", 400, "invalid_request")
          /\ UNCHANGED users
     ELSE LET id == ReqUser(cookie).id
              updated == Finalize(MergeProfile(users[id], body), now)
          IN
          /\ users' = [users EXCEPT ![id] = updated]
          /\ resp' = [Reply("profile", 200, "none") EXCEPT
               !.user = UserView(id, updated), !.uid = id,
               !.lastLoginAt = updated.last_login_at,
               !.needsSetup = NeedsSetup(updated.role, updated.last_login_at,
                                         updated.birthday, updated.venmo)]

\* ---- POST /api/updates -------------------------------------------------------
UpdateBodies == {[date |-> "2026-11-02", title |-> "dinner"], [title |-> "no date"]}

UpdateSchemaOk(body) == {"date", "title"} \subseteq DOMAIN body

PostUpdate(cookie, header, body) ==
  /\ resp = NoResp
  /\ sessions' = AuthSessions(cookie)
  /\ UNCHANGED <<users, tokens, now, nextUid, nextSid, nextTid, pending>>
  /\ IF Gate("POST", "/updates", cookie, header, FALSE) # 0
     THEN /\ resp' = Reply("post-update", Gate("POST", "/updates", cookie, header, FALSE),
                          GateError("POST", "/updates", cookie, header))
          /\ UNCHANGED <<updates, nextUpd>>
     ELSE IF ~UpdateSchemaOk(body)
     THEN /\ resp' = Reply("post-update", 400, "invalid_request")
          /\ UNCHANGED <<updates, nextUpd>>
     ELSE /\ updates' = updates \cup {[id |-> UpdOf(nextUpd), user_id |-> ReqUser(cookie).id,
                                        date |-> body.date, title |-> body.title]}
          /\ nextUpd' = nextUpd + 1
          /\ resp' = Reply("post-update", 200, "none")

\* ---- PUT and DELETE /api/updates/:id -----------------------------------------
UpdateIds == {UpdOf(n) : n \in 1..nextUpd}
PutBodies == {[date |-> "2026-12-24", title |-> "party"], [title |-> "no date"]}

\* SELECT user_id FROM updates WHERE id = ?
Existing(id) == {u \in updates : u.id = id}

\* a test that lets every requester edit
CanEditAnyone(existing, user) == TRUE

\* canEdit: the author, or an admin
CanEdit(existing, user) == existing.user_id = user.id \/ user.role = "admin"

\* a test that lets every requester delete
CanDeleteAnyone(existing, user) == TRUE

\* canDelete: the author, or an admin
CanDelete(existing, user) == existing.user_id = user.id \/ user.role = "admin"

PutUpdate(cookie, header, id, body) ==
  /\ resp = NoResp
  /\ sessions' = AuthSessions(cookie)
  /\ UNCHANGED <<users, tokens, now, nextUpd, nextUid, nextSid, nextTid, pending>>
  /\ IF Gate("PUT", "/updates/:id", cookie, header, FALSE) # 0
     THEN /\ resp' = Reply("put-update", Gate("PUT", "/updates/:id", cookie, header, FALSE),
                          GateError("PUT", "/updates/:id", cookie, header))
          /\ UNCHANGED updates
     ELSE IF ~UpdateSchemaOk(body)
     THEN /\ resp' = Reply("put-update", 400, "invalid_request")
          /\ UNCHANGED updates
     ELSE IF Existing(id) = {}
     THEN /\ resp' = Reply("put-update", 404, "not_found")
          /\ UNCHANGED updates
     ELSE IF \E e \in Existing(id) : ~CanEdit(e, ReqUser(cookie))
     THEN /\ resp' = Reply("put-update", 403, "forbidden")
          /\ UNCHANGED updates
     ELSE /\ updates' = {IF u.id = id
                         THEN [u EXCEPT !.date = body.date, !.title = body.title]
                         ELSE u : u \in updates}
          /\ resp' = Reply("put-update", 200, "none")

DeleteUpdate(cookie, header, id) ==
  /\ resp = NoResp
  /\ sessions' = AuthSessions(cookie)
  /\ UNCHANGED <<users, tokens, now, nextUpd, nextUid, nextSid, nextTid, pending>>
  /\ IF Gate("DELETE", "/updates/:id", cookie, header, FALSE) # 0
     THEN /\ resp' = Reply("delete-update", Gate("DELETE", "/updates/:id", cookie, header, FALSE),
                          GateError("DELETE", "/updates/:id", cookie, header))
          /\ UNCHANGED updates
     ELSE IF Existing(id) = {}
     THEN /\ resp' = Reply("delete-update", 404, "not_found")
          /\ UNCHANGED updates
     ELSE IF \E e \in Existing(id) : ~CanDelete(e, ReqUser(cookie))
     THEN /\ resp' = Reply("delete-update", 403, "forbidden")
          /\ UNCHANGED updates
     ELSE /\ updates' = {u \in updates : u.id # id}
          /\ resp' = Reply("delete-update", 200, "none")

\* ---- /api/admin --------------------------------------------------------------
\* SELECT COUNT(1) FROM users WHERE role = 'admin'
AdminCount(us) == Cardinality({id \in DOMAIN us : us[id].role = "admin"})

\* the UNIQUE constraint on users.username, for the row `except` (0: a new row)
UsernameTaken(us, except, name) ==
  \E id \in DOMAIN us : id # except /\ us[id].username = name

CreateBodies ==
  {[username |-> "JANE"],
   [username |-> "jane", displayName |-> DisplayName],
   [username |-> "admin"],
   [username |-> "jane", password |-> PwHorse],
   [username |-> "jane", password |-> PwShort],
   [username |-> "jane", role |-> "admin"],
   [username |-> "jane", password |-> PwHorse, role |-> "admin"]}

\* CreateUserSchemaRefined
CreateUserSchemaOk(body) ==
  /\ "password" \in DOMAIN body =>
       body.password.len >= MinPasswordLen /\ body.password.len <= MaxPasswordLen
  /\ ("role" \in DOMAIN body /\ body.role = "admin") => "password" \in DOMAIN body

\* a row inserted with the flag's default
CreatedRowFlagDefault(body, hash) ==
  [username |-> Lower(body.username), display_name |-> Field(body, "displayName"),
   password_hash |-> hash, must_set_password |-> 0,
   role |-> IF "role" \in DOMAIN body THEN body.role ELSE "user",
   birthday |-> Null, venmo |-> Null, last_login_at |-> Null]

\* the row POST /users inserts
CreatedRow(body, hash) ==
  [username |-> Lower(body.username), display_name |-> Field(body, "displayName"),
   password_hash |-> hash, must_set_password |-> IF hash # Null THEN 0 ELSE 1,
   role |-> IF "role" \in DOMAIN body THEN body.role ELSE "user",
   birthday |-> Null, venmo |-> Null, last_login_at |-> Null]

\* INSERT INTO users, and the response
InsertUser(row) ==
  IF UsernameTaken(users, 0, row.username)
  THEN /\ resp' = Reply("create-user", 409, "username_taken")
       /\ UNCHANGED <<users, nextUid>>
  ELSE /\ users' = users @@ (nextUid :> row)
       /\ nextUid' = nextUid + 1
       /\ resp' = Reply("create-user", 200, "none")

CreateUser(cookie, header, body) ==
  /\ resp = NoResp
  /\ sessions' = AuthSessions(cookie)
  /\ UNCHANGED <<tokens, now, updates, nextUpd, nextSid, nextTid>>
  /\ IF Gate("POST", "/admin/users", cookie, header, TRUE) # 0
     THEN /\ resp' = Reply("create-user", Gate("POST", "/admin/users", cookie, header, TRUE),
                          GateError("POST", "/admin/users", cookie, header))
          /\ UNCHANGED <<users, nextUid, pending>>
     ELSE IF ~CreateUserSchemaOk(body)
     THEN /\ resp' = Reply("create-user", 400, "invalid_request")
          /\ UNCHANGED <<users, nextUid, pending>>
     ELSE IF "password" \in DOMAIN body
     THEN /\ CanSuspend
          /\ pending' = Suspend([op |-> "create-user",
                                 row |-> CreatedRow(body, Hash(body.password))])
          /\ UNCHANGED <<users, nextUid, resp>>
     ELSE /\ InsertUser(CreatedRow(body, Null))
          /\ UNCHANGED pending

\* POST /users after `await argon2.hash`
CreateUserResume(r) ==
  /\ resp = NoResp
  /\ r.op = "create-user"
  /\ pending' = Resume(r)
  /\ InsertUser(r.row)
  /\ UNCHANGED <<sessions, tokens, now, updates, nextUpd, nextSid, nextTid>>

PatchBodies ==
  {<<>>, [role |-> "user"], [role |-> "admin"], [username |-> "admin"],
   [displayName |-> Null], [birthday |-> Birthday, venmo |-> Venmo],
   [lastLoginAt |-> At(1)],
   [birthday |-> Null, venmo |-> Null, lastLoginAt |-> Null]}

UpdateUserSchemaOk(body) == DOMAIN body # {}

\* the guard of PATCH /users/:id against demoting the last admin
DemotesLastAdmin(us, id, body) ==
  /\ us[id].role = "admin"
  /\ "role" \in DOMAIN body /\ body.role = "user"
  /\ AdminCount(us) <= 1

\* the guard with the count compared against zero
DeletesLastAdminOffByOne(us, id) == us[id].role = "admin" /\ AdminCount(us) <= 0

\* the guard of DELETE /users/:id against deleting the last admin
DeletesLastAdmin(us, id) == us[id].role = "admin" /\ AdminCount(us) <= 1

\* an update that writes every column, NULL where the body holds no field
PatchRowOverwrites(row, body) ==
  [username |-> IF "username" \in DOMAIN body THEN Lower(body.username) ELSE row.username,
   display_name |-> Field(body, "displayName"),
   password_hash |-> row.password_hash,
   must_set_password |-> row.must_set_password,
   role |-> IF "role" \in DOMAIN body THEN body.role ELSE row.role,
   birthday |-> Field(body, "birthday"), venmo |-> Field(body, "venmo"),
   last_login_at |-> Field(body, "lastLoginAt")]

\* UPDATE users SET <the fields of the body> WHERE id = @id
PatchRow(row, body) ==
  [username |-> IF "username" \in DOMAIN body THEN Lower(body.username) ELSE row.username,
   display_name |-> IF "displayName" \in DOMAIN body THEN body.displayName
                    ELSE row.display_name,
   password_hash |-> row.password_hash,
   must_set_password |-> row.must_set_password,
   role |-> IF "role" \in DOMAIN body THEN body.role ELSE row.role,
   birthday |-> IF "birthday" \in DOMAIN body THEN body.birthday ELSE row.birthday,
   venmo |-> IF "venmo" \in DOMAIN body THEN body.venmo ELSE row.venmo,
   last_login_at |-> IF "lastLoginAt" \in DOMAIN body THEN body.lastLoginAt
                     ELSE row.last_login_at]

PatchUser(cookie, header, userId, body) ==
  /\ resp = NoResp
  /\ sessions' = AuthSessions(cookie)
  /\ UNCHANGED <<tokens, now, updates, nextUpd, nextUid, nextSid, nextTid, pending>>
  /\ IF Gate("PATCH", "/admin/users/:id", cookie, header, TRUE) # 0
     THEN /\ resp' = Reply("patch-user",
                          Gate("PATCH", "/admin/users/:id", cookie, header, TRUE),
                          GateError("PATCH", "/admin/users/:id", cookie, header))
          /\ UNCHANGED users
     ELSE IF ~UpdateUserSchemaOk(body)
     THEN /\ resp' = Reply("patch-user", 400, "invalid_request")
          /\ UNCHANGED users
     ELSE IF userId \notin DOMAIN users
     THEN /\ resp' = Reply("patch-user", 404, "not_found")
          /\ UNCHANGED users
     ELSE IF DemotesLastAdmin(users, userId, body)
     THEN /\ resp' = Reply("patch-user", 409, "cannot_remove_last_admin")
          /\ UNCHANGED users
     ELSE IF "username" \in DOMAIN body /\ UsernameTaken(users, userId, Lower(body.username))
     THEN /\ resp' = Reply("patch-user", 409, "username_taken")
          /\ UNCHANGED users
     ELSE /\ users' = [users EXCEPT ![userId] = PatchRow(@, body)]
          /\ resp' = Reply("patch-user", 200, "none")

\* DELETE FROM users WHERE id = ?, with the ON DELETE CASCADE of the schema
DeleteRow(us, id) == [x \in DOMAIN us \ {id} |-> us[x]]
\* a deletion of the users row alone
CascadeNone(rows, id) == rows

\* FOREIGN KEY(user_id) REFERENCES users(id) ON DELETE CASCADE
Cascade(rows, id) == {r \in rows : r.user_id # id}

DeleteUser(cookie, header, userId) ==
  /\ resp = NoResp
  /\ UNCHANGED <<now, nextUpd, nextUid, nextSid, nextTid, pending>>
  /\ IF Gate("DELETE", "/admin/users/:id", cookie, header, TRUE) # 0
     THEN /\ resp' = Reply("delete-user",
                          Gate("DELETE", "/admin/users/:id", cookie, header, TRUE),
                          GateError("DELETE", "/admin/users/:id", cookie, header))
          /\ sessions' = AuthSessions(cookie)
          /\ UNCHANGED <<users, tokens, updates>>
     ELSE IF userId \notin DOMAIN users
     THEN /\ resp' = Reply("delete-user", 404, "not_found")
          /\ sessions' = AuthSessions(cookie)
          /\ UNCHANGED <<users, tokens, updates>>
     ELSE IF DeletesLastAdmin(users, userId)
     THEN /\ resp' = Reply("delete-user", 409, "cannot_delete_last_admin")
          /\ sessions' = AuthSessions(cookie)
          /\ UNCHANGED <<users, tokens, updates>>
     ELSE /\ users' = DeleteRow(users, userId)
          /\ sessions' = Cascade(AuthSessions(cookie), userId)
          /\ tokens' = Cascade(tokens, userId)
          /\ updates' = Cascade(updates, userId)
          /\ resp' = Reply("delete-user", 200, "none")

ResetPasswordSchemaOk(pw) == pw.len >= MinPasswordLen /\ pw.len <= MaxPasswordLen

ResetPassword(cookie, header, userId, pw) ==
  /\ resp = NoResp
  /\ sessions' = AuthSessions(cookie)
  /\ UNCHANGED <<users, tokens, now, updates, nextUpd, nextUid, nextSid, nextTid>>
  /\ IF Gate("POST", "/admin/users/:id/reset-password", cookie, header, TRUE) # 0
     THEN /\ resp' = Reply("reset-password",
                          Gate("POST", "/admin/users/:id/reset-password", cookie, header, TRUE),
                          GateError("POST", "/admin/users/:id/reset-password", cookie, header))
          /\ UNCHANGED pending
     ELSE IF ~ResetPasswordSchemaOk(pw)
     THEN /\ resp' = Reply("reset-password", 400, "invalid_request")
          /\ UNCHANGED pending
     ELSE IF userId \notin DOMAIN users
     THEN /\ resp' = Reply("reset-password", 404, "not_found")
          /\ UNCHANGED pending
     ELSE /\ CanSuspend
          /\ pending' = Suspend([op |-> "reset-password", id |-> userId, hash |-> Hash(pw)])
          /\ UNCHANGED resp

\* a reset that stores the hash and leaves the sessions alone
ResetPasswordResumeKeepsSessions(r) ==
  /\ resp = NoResp
  /\ r.op = "reset-password"
  /\ pending' = Resume(r)
  /\ users' = StorePassword(users, r.id, r.hash)
  /\ tokens' = {t \in tokens : t.user_id # r.id}
  /\ resp' = Reply("reset-password", 200, "none")
  /\ UNCHANGED <<sessions, now, updates, nextUpd, nextUid, nextSid, nextTid>>

\* a reset that stores the hash and leaves the setup tokens alone
ResetPasswordResumeKeepsTokens(r) ==
  /\ resp = NoResp
  /\ r.op = "reset-password"
  /\ pending' = Resume(r)
  /\ users' = StorePassword(users, r.id, r.hash)
  /\ sessions' = RevokeAll(sessions, r.id)
  /\ resp' = Reply("reset-password", 200, "none")
  /\ UNCHANGED <<tokens, now, updates, nextUpd, nextUid, nextSid, nextTid>>

\* reset-password after `await argon2.hash`
ResetPasswordResume(r) ==
  /\ resp = NoResp
  /\ r.op = "reset-password"
  /\ pending' = Resume(r)
  /\ users' = StorePassword(users, r.id, r.hash)
  /\ sessions' = RevokeAll(sessions, r.id)
  /\ tokens' = {t \in tokens : t.user_id # r.id}
  /\ resp' = Reply("reset-password", 200, "none")
  /\ UNCHANGED <<now, updates, nextUpd, nextUid, nextSid, nextTid>>

\* adminRouter.get("/users"): the list of users, for an admin
ListUsers(cookie) ==
  /\ resp = NoResp
  /\ sessions' = AuthSessions(cookie)
  /\ resp' = IF Gate("GET", "/admin/users", cookie, Null, TRUE) # 0
             THEN Reply("list-users", Gate("GET", "/admin/users", cookie, Null, TRUE),
                        GateError("GET", "/admin/users", cookie, Null))
             ELSE Reply("list-users", 200, "none")
  /\ UNCHANGED <<users, tokens, now, updates, nextUpd, nextUid, nextSid, nextTid, pending>>

\* ---- a request no router handles: the 404 behind the CSRF mount --------------
OtherMethods == {"GET", "POST", "DELETE"}
OtherPaths == {"/nothing"}

Unrouted(method, path, cookie, header) ==
  /\ resp = NoResp
  /\ sessions' = AuthSessions(cookie)
  /\ resp' = IF CsrfMount(method, path, ReqSession(cookie), header) # 0
             THEN Reply("unrouted", CsrfMount(method, path, ReqSession(cookie), header),
                        GateError(method, path, cookie, header))
             ELSE Reply("unrouted", 404, "not_found")
  /\ UNCHANGED <<users, tokens, now, updates, nextUpd, nextUid, nextSid, nextTid, pending>>

\* a step that receives a request, and a step that does not
Receive == served < MaxRequests /\ served' = served + 1
Continue == UNCHANGED served

\* the record of the session ids handed out and of the setup tokens used up
Ledger ==
  /\ issued' = issued \cup {[id |-> s.id, user_id |-> s.user_id] : s \in sessions' \ sessions}
  /\ consumed' = consumed \cup
       (IF resp'.op = "set-password" /\ resp'.status = 200 /\ resp = NoResp
        THEN {[id |-> r.token, user_id |-> r.u.id] :
                r \in {x \in BagToSet(pending (-) pending') : x.op = "set-password"}}
        ELSE {})

Next ==
  \/ Tick /\ Continue /\ Ledger
  \/ Respond /\ Continue /\ Ledger
  \/ Receive /\ \E c \in Cookies, n \in LoginNames, p \in Passwords : Login(c, n, p) /\ Ledger
  \/ Continue /\ \E r \in BagToSet(pending) : LoginResume(r) /\ Ledger
  \/ Receive /\ \E c \in Cookies, t \in SetupTokens, p \in Passwords : SetPassword(c, t, p) /\ Ledger
  \/ Continue /\ \E r \in BagToSet(pending) : SetPasswordResume(r) /\ Ledger
  \/ Receive /\ \E c \in Cookies : \E h \in Headers(c) : Logout(c, h) /\ Ledger
  \/ Receive /\ \E c \in Cookies : GetMe(c) /\ Ledger
  \/ Receive /\ \E c \in Cookies : \E h \in Headers(c), b \in ProfileBodies : PutProfile(c, h, b) /\ Ledger
  \/ Receive /\ \E c \in Cookies : \E h \in Headers(c), b \in UpdateBodies : PostUpdate(c, h, b) /\ Ledger
  \/ Receive /\ \E c \in Cookies : ListUsers(c) /\ Ledger
  \/ Receive /\ \E c \in Cookies : \E h \in Headers(c), id \in UpdateIds, b \in PutBodies :
        PutUpdate(c, h, id, b) /\ Ledger
  \/ Receive /\ \E c \in Cookies : \E h \in Headers(c), id \in UpdateIds :
        DeleteUpdate(c, h, id) /\ Ledger
  \/ Receive /\ \E c \in Cookies : \E h \in Headers(c), b \in CreateBodies : CreateUser(c, h, b) /\ Ledger
  \/ Continue /\ \E r \in BagToSet(pending) : CreateUserResume(r) /\ Ledger
  \/ Receive /\ \E c \in Cookies : \E h \in Headers(c), id \in UserIds, b \in PatchBodies :
        PatchUser(c, h, id, b) /\ Ledger
  \/ Receive /\ \E c \in Cookies : \E h \in Headers(c), id \in UserIds : DeleteUser(c, h, id) /\ Ledger
  \/ Receive /\ \E c \in Cookies : \E h \in Headers(c), id \in UserIds, p \in Passwords :
        ResetPassword(c, h, id, p) /\ Ledger
  \/ Continue /\ \E r \in BagToSet(pending) : ResetPasswordResume(r) /\ Ledger
  \/ Receive /\ \E m \in OtherMethods, pa \in OtherPaths, c \in Cookies : \E h \in Headers(c) :
        Unrouted(m, pa, c, h) /\ Ledger

Spec == Init /\ [][Next]_vars

\* ---- the specifications that are checked: Next with the request bodies of one
\* ---- part of the system, so that every behaviour of each is a behaviour of Spec
AuthCreateBodies == {[username |-> "JANE"], [username |-> "jane", password |-> PwHorse]}

\* sessions, setup tokens and passwords
NextAuth ==
  \/ Tick /\ Continue /\ Ledger
  \/ Respond /\ Continue /\ Ledger
  \/ Receive /\ \E c \in Cookies, n \in LoginNames, p \in LoginPasswords : Login(c, n, p) /\ Ledger
  \/ Continue /\ \E r \in BagToSet(pending) : LoginResume(r) /\ Ledger
  \/ Receive /\ \E c \in Cookies, t \in SetupTokens, p \in NewPasswords :
        SetPassword(c, t, p) /\ Ledger
  \/ Continue /\ \E r \in BagToSet(pending) : SetPasswordResume(r) /\ Ledger
  \/ Receive /\ \E c \in Cookies : \E h \in Headers(c) : Logout(c, h) /\ Ledger
  \/ Receive /\ \E c \in Cookies : \E h \in Headers(c), b \in AuthCreateBodies :
        CreateUser(c, h, b) /\ Ledger
  \/ Continue /\ \E r \in BagToSet(pending) : CreateUserResume(r) /\ Ledger
  \/ Receive /\ \E c \in Cookies : \E h \in Headers(c), id \in UserIds : DeleteUser(c, h, id) /\ Ledger
  \/ Receive /\ \E c \in Cookies : \E h \in Headers(c), id \in UserIds, p \in NewPasswords :
        ResetPassword(c, h, id, p) /\ Ledger
  \/ Continue /\ \E r \in BagToSet(pending) : ResetPasswordResume(r) /\ Ledger

SpecAuth == Init /\ [][NextAuth]_vars

AdminPatchBodies == {<<>>, [role |-> "user"], [role |-> "admin"], [username |-> "admin"]}
AdminCreateBodies ==
  {[username |-> "JANE"], [username |-> "jane", role |-> "admin"],
   [username |-> "jane", password |-> PwHorse, role |-> "admin"]}
AdminLoginNames == {"admin", "JANE"}
AdminMethods == {"GET", "POST"}

\* the administration of users behind the CSRF mount
NextAdmin ==
  \/ Tick /\ Continue /\ Ledger
  \/ Respond /\ Continue /\ Ledger
  \/ Receive /\ \E c \in Cookies, n \in AdminLoginNames, p \in {PwBootstrap, PwHorse} :
        Login(c, n, p) /\ Ledger
  \/ Continue /\ \E r \in BagToSet(pending) : LoginResume(r) /\ Ledger
  \/ Receive /\ \E c \in Cookies : \E h \in Headers(c), b \in AdminCreateBodies : CreateUser(c, h, b) /\ Ledger
  \/ Continue /\ \E r \in BagToSet(pending) : CreateUserResume(r) /\ Ledger
  \/ Receive /\ \E c \in Cookies : \E h \in Headers(c), id \in UserIds, b \in AdminPatchBodies :
        PatchUser(c, h, id, b) /\ Ledger
  \/ Receive /\ \E c \in Cookies : \E h \in Headers(c), id \in UserIds : DeleteUser(c, h, id) /\ Ledger
  \/ Receive /\ \E c \in Cookies : \E h \in Headers(c), id \in UserIds :
        ResetPassword(c, h, id, PwHorse) /\ Ledger
  \/ Continue /\ \E r \in BagToSet(pending) : ResetPasswordResume(r) /\ Ledger
  \/ Receive /\ \E c \in Cookies : \E h \in Headers(c) : PutProfile(c, h, [venmo |-> Venmo]) /\ Ledger
  \/ Receive /\ \E m \in AdminMethods, pa \in OtherPaths, c \in Cookies : \E h \in Headers(c) :
        Unrouted(m, pa, c, h) /\ Ledger

SpecAdmin == Init /\ [][NextAdmin]_vars

SetupPatchBodies ==
  {[birthday |-> Birthday, venmo |-> Venmo], [lastLoginAt |-> At(1)],
   [birthday |-> Null, venmo |-> Null, lastLoginAt |-> Null]}

\* onboarding: the profile and last_login_at
NextSetup ==
  \/ Tick /\ Continue /\ Ledger
  \/ Respond /\ Continue /\ Ledger
  \/ Receive /\ \E c \in Cookies, n \in LoginNames, p \in {PwBootstrap, PwHorse} :
        Login(c, n, p) /\ Ledger
  \/ Continue /\ \E r \in BagToSet(pending) : LoginResume(r) /\ Ledger
  \/ Receive /\ \E c \in Cookies, t \in SetupTokens : SetPassword(c, t, PwHorse) /\ Ledger
  \/ Continue /\ \E r \in BagToSet(pending) : SetPasswordResume(r) /\ Ledger
  \/ Receive /\ \E c \in Cookies : GetMe(c) /\ Ledger
  \/ Receive /\ \E c \in Cookies : \E h \in Headers(c), b \in ProfileBodies : PutProfile(c, h, b) /\ Ledger
  \/ Receive /\ \E c \in Cookies : \E h \in Headers(c) : CreateUser(c, h, [username |-> "jane"]) /\ Ledger
  \/ Receive /\ \E c \in Cookies : \E h \in Headers(c), id \in UserIds, b \in SetupPatchBodies :
        PatchUser(c, h, id, b) /\ Ledger

SpecSetup == Init /\ [][NextSetup]_vars

OnboardPasswords == {PwHorse, PwLong}

\* the first login of a user: setup token, password, profile, GET /me
NextOnboard ==
  \/ Tick /\ Continue /\ Ledger
  \/ Respond /\ Continue /\ Ledger
  \/ Receive /\ \E c \in Cookies, p \in OnboardPasswords : Login(c, "JANE", p) /\ Ledger
  \/ Continue /\ \E r \in BagToSet(pending) : LoginResume(r) /\ Ledger
  \/ Receive /\ \E c \in Cookies, t \in SetupTokens, p \in OnboardPasswords :
        SetPassword(c, t, p) /\ Ledger
  \/ Continue /\ \E r \in BagToSet(pending) : SetPasswordResume(r) /\ Ledger
  \/ Receive /\ \E c \in Cookies : GetMe(c) /\ Ledger
  \/ Receive /\ \E c \in Cookies : \E h \in Headers(c), b \in ProfileBodies : PutProfile(c, h, b) /\ Ledger
  \/ Receive /\ \E c \in Cookies : \E h \in Headers(c), id \in UserIds, b \in SetupPatchBodies :
        PatchUser(c, h, id, b) /\ Ledger

SpecOnboard == Init /\ [][NextOnboard]_vars

\* BOOTSTRAP_ADMIN_USERNAME is any string of the environment
ConfiguredUsernames == {"admin", "Admin"}

\* the store of a server whose administrator was bootstrapped from the
\* configured username and has logged in
InitNames ==
  /\ now = 1
  /\ nextTid = 2
  /\ pending = EmptyBag
  /\ resp = NoResp
  /\ served = 0
  /\ consumed = {}
  /\ updates = {}
  /\ nextUpd = 1
  /\ tokens = {}
  /\ \E name \in ConfiguredUsernames :
       users = (1 :> [BootstrapRow EXCEPT !.username = name, !.last_login_at = At(1)])
  /\ nextUid = 2
  /\ sessions = {StoredSession(1, 1)}
  /\ issued = {[id |-> SidOf(1), user_id |-> 1]}
  /\ nextSid = 3

NamesCreateBodies ==
  {[username |-> "ADMIN"], [username |-> "jane"], [username |-> "JANE", password |-> PwHorse]}
NamesPatchBodies == {[username |-> "ADMIN"], [username |-> "jane"]}

\* usernames: the bootstrapped administrator creates and renames users
NextNames ==
  \/ Tick /\ Continue /\ Ledger
  \/ Respond /\ Continue /\ Ledger
  \/ Receive /\ \E c \in Cookies : Login(c, "admin", PwBootstrap) /\ Ledger
  \/ Continue /\ \E r \in BagToSet(pending) : LoginResume(r) /\ Ledger
  \/ Receive /\ \E c \in Cookies : \E h \in Headers(c), b \in NamesCreateBodies :
        CreateUser(c, h, b) /\ Ledger
  \/ Continue /\ \E r \in BagToSet(pending) : CreateUserResume(r) /\ Ledger
  \/ Receive /\ \E c \in Cookies : \E h \in Headers(c), id \in UserIds, b \in NamesPatchBodies :
        PatchUser(c, h, id, b) /\ Ledger

SpecNames == InitNames /\ [][NextNames]_vars

\* the deletion of a user who has rows in every table and requests in flight
NextCascade ==
  \/ Tick /\ Continue /\ Ledger
  \/ Respond /\ Continue /\ Ledger
  \/ Receive /\ \E c \in Cookies : Login(c, "JANE", PwHorse) /\ Ledger
  \/ Continue /\ \E r \in BagToSet(pending) : LoginResume(r) /\ Ledger
  \/ Receive /\ \E c \in Cookies, t \in SetupTokens : SetPassword(c, t, PwHorse) /\ Ledger
  \/ Continue /\ \E r \in BagToSet(pending) : SetPasswordResume(r) /\ Ledger
  \/ Receive /\ \E c \in Cookies : \E h \in Headers(c), b \in UpdateBodies : PostUpdate(c, h, b) /\ Ledger
  \/ Receive /\ \E c \in Cookies : \E h \in Headers(c), id \in UserIds : DeleteUser(c, h, id) /\ Ledger

SpecCascade == Init /\ [][NextCascade]_vars

CredentialNames == {"admin", "JANE"}
CredentialPatchBodies == {[role |-> "admin"], [username |-> "jane"], [lastLoginAt |-> Null]}

\* every operation that writes a users row or reads its credential fields
NextCredentials ==
  \/ Tick /\ Continue /\ Ledger
  \/ Respond /\ Continue /\ Ledger
  \/ Receive /\ \E c \in Cookies, n \in CredentialNames : Login(c, n, PwHorse) /\ Ledger
  \/ Continue /\ \E r \in BagToSet(pending) : LoginResume(r) /\ Ledger
  \/ Receive /\ \E c \in Cookies, t \in SetupTokens : SetPassword(c, t, PwHorse) /\ Ledger
  \/ Continue /\ \E r \in BagToSet(pending) : SetPasswordResume(r) /\ Ledger
  \/ Receive /\ \E c \in Cookies : \E h \in Headers(c), b \in AuthCreateBodies :
        CreateUser(c, h, b) /\ Ledger
  \/ Continue /\ \E r \in BagToSet(pending) : CreateUserResume(r) /\ Ledger
  \/ Receive /\ \E c \in Cookies : \E h \in Headers(c), id \in UserIds, b \in CredentialPatchBodies :
        PatchUser(c, h, id, b) /\ Ledger
  \/ Receive /\ \E c \in Cookies : \E h \in Headers(c), id \in UserIds :
        ResetPassword(c, h, id, PwBootstrap) /\ Ledger
  \/ Continue /\ \E r \in BagToSet(pending) : ResetPasswordResume(r) /\ Ledger

SpecCredentials == Init /\ [][NextCredentials]_vars

FramePatchBodies ==
  PatchBodies \cup {[username |-> "jane"],
                    [username |-> "ADMIN", displayName |-> DisplayName, role |-> "admin"]}

\* PATCH /users/:id with every kind of body, on a store with sessions and tokens
NextPatch ==
  \/ Tick /\ Continue /\ Ledger
  \/ Respond /\ Continue /\ Ledger
  \/ Receive /\ \E c \in Cookies : Login(c, "admin", PwBootstrap) /\ Ledger
  \/ Continue /\ \E r \in BagToSet(pending) : LoginResume(r) /\ Ledger
  \/ Receive /\ \E c \in Cookies : \E h \in Headers(c), id \in UserIds, b \in FramePatchBodies :
        PatchUser(c, h, id, b) /\ Ledger

SpecPatch == Init /\ [][NextPatch]_vars

GuardPatchBodies == {[role |-> "user"], [role |-> "admin"]}
GuardCreateBodies == {[username |-> "max", password |-> PwHorse]}

\* the routes of /api/admin, called with and without an admin's session
NextGuard ==
  \/ Tick /\ Continue /\ Ledger
  \/ Respond /\ Continue /\ Ledger
  \/ Receive /\ \E c \in Cookies : ListUsers(c) /\ Ledger
  \/ Receive /\ \E c \in Cookies : \E h \in Headers(c), b \in GuardCreateBodies :
        CreateUser(c, h, b) /\ Ledger
  \/ Continue /\ \E r \in BagToSet(pending) : CreateUserResume(r) /\ Ledger
  \/ Receive /\ \E c \in Cookies : \E h \in Headers(c), id \in UserIds, b \in GuardPatchBodies :
        PatchUser(c, h, id, b) /\ Ledger
  \/ Receive /\ \E c \in Cookies : \E h \in Headers(c), id \in UserIds : DeleteUser(c, h, id) /\ Ledger
  \/ Receive /\ \E c \in Cookies : \E h \in Headers(c), id \in UserIds :
        ResetPassword(c, h, id, PwHorse) /\ Ledger
  \/ Continue /\ \E r \in BagToSet(pending) : ResetPasswordResume(r) /\ Ledger

SpecGuard == Init /\ [][NextGuard]_vars

\* the updates of the calendar, written by their authors, by admins and by others
NextUpdates ==
  \/ Tick /\ Continue /\ Ledger
  \/ Respond /\ Continue /\ Ledger
  \/ Receive /\ \E c \in Cookies : \E h \in Headers(c), b \in UpdateBodies : PostUpdate(c, h, b) /\ Ledger
  \/ Receive /\ \E c \in Cookies : \E h \in Headers(c), id \in UpdateIds, b \in PutBodies :
        PutUpdate(c, h, id, b) /\ Ledger
  \/ Receive /\ \E c \in Cookies : \E h \in Headers(c), id \in UpdateIds :
        DeleteUpdate(c, h, id) /\ Ledger
  \/ Receive /\ \E c \in Cookies : \E h \in Headers(c), id \in UserIds, b \in GuardPatchBodies :
        PatchUser(c, h, id, b) /\ Ledger

SpecUpdates == Init /\ [][NextUpdates]_vars

\* ============================ properties ====================================

\* a PATCH that would demote, and a DELETE that would delete, the only admin
DemotesSoleAdmin(id, body) ==
  /\ id \in DOMAIN users /\ users[id].role = "admin"
  /\ "role" \in DOMAIN body /\ body.role = "user"
  /\ AdminCount(users) = 1
DeletesSoleAdmin(id) ==
  id \in DOMAIN users /\ users[id].role = "admin" /\ AdminCount(users) = 1

SoleAdminKept ==
  /\ resp'.op = "patch-user" =>
       \A c \in Cookies : \A h \in Headers(c), id \in UserIds, b \in AdminPatchBodies :
         (/\ DemotesSoleAdmin(id, b)
          /\ Gate("PATCH", "/admin/users/:id", c, h, TRUE) = 0
          /\ PatchUser(c, h, id, b))
           => (resp'.status = 409 /\ UNCHANGED <<users, sessions, tokens>>)
  /\ resp'.op = "delete-user" =>
       \A c \in Cookies : \A h \in Headers(c), id \in UserIds :
         (/\ DeletesSoleAdmin(id)
          /\ Gate("DELETE", "/admin/users/:id", c, h, TRUE) = 0
          /\ DeleteUser(c, h, id))
           => (resp'.status = 409 /\ UNCHANGED <<users, sessions, tokens>>)

\* C1: no step from a state with at least one admin-role user leads to a state
\* with none, and an admin's PATCH that would demote the only admin, or DELETE
\* of the only admin, is answered 409 and changes no user, session or token.
C1_LastAdminKept ==
  [][(AdminCount(users) >= 1 => AdminCount(users') >= 1) /\ SoleAdminKept]_vars

\* the only admin has just been refused its own demotion
C1_Witness ==
  /\ resp.op = "patch-user" /\ resp.status = 409
  /\ resp.error = "cannot_remove_last_admin"
  /\ AdminCount(users) = 1

SessionsOf(ss, userId) == {s \in ss : s.user_id = userId}

\* C2: in every state every user owns at most one row of the sessions table.
C2_OneSessionPerUser ==
  \A id \in 1..nextUid : Cardinality(SessionsOf(sessions, id)) <= 1

\* a user who held a session has been issued another one, and holds only that
C2_Witness ==
  \E i \in issued, s \in sessions :
    /\ i.user_id = s.user_id /\ i.id # s.id
    /\ resp.op \in {"login", "set-password"} /\ resp.status = 200 /\ resp.cookie = s.id

\* the session ids issued for userId up to now
IssuedFor(userId) == {i.id : i \in {x \in issued : x.user_id = userId}}
Stored(ss) == {s.id : s \in ss}

PasswordChangeRevokes ==
  /\ \A r \in BagToSet(pending) :
       (SetPasswordResume(r) /\ resp'.status = 200)
         => (/\ IssuedFor(r.u.id) \cap Stored(sessions') = {}
             /\ \A c \in IssuedFor(r.u.id) : ReqSession(c)' = Null)
  /\ \A r \in BagToSet(pending) :
       (ResetPasswordResume(r) /\ resp'.status = 200)
         => (/\ IssuedFor(r.id) \cap Stored(sessions') = {}
             /\ \A c \in IssuedFor(r.id) : ReqSession(c)' = Null)
  \* and a session id that has left the table never comes back
  /\ \A i \in issued : i.id \notin Stored(sessions) => i.id \notin Stored(sessions')

\* C3: the step that completes a set-password or an admin reset-password for a
\* user leaves none of the session ids issued for that user before it in the
\* sessions table, authMiddleware resolves no session for any of them, and an
\* id that has left the table never returns to it.
C3_PasswordChangeRevokes == [][PasswordChangeRevokes]_vars

\* an admin reset-password has completed for a user who had been issued a session
C3_Witness ==
  /\ resp.op = "reset-password" /\ resp.status = 200
  /\ \E i \in issued : i.user_id = 2 /\ i.id \notin Stored(sessions)
  /\ 2 \in DOMAIN users /\ users[2].password_hash = Hash(PwHorse)

\* the header is absent, or is not the csrf_token of the session of the cookie
BadCsrf(c, h) == h = Null \/ ReqSession(c) = Null \/ h # ReqSession(c).csrf_token
Rejection(c) == IF ReqSession(c) # Null THEN 403 ELSE 401

\* the sessions table without the expired row the cookie names
LazilyExpired(ss, c) == {s \in ss : ~(s.id = c /\ s.expires_at <= now)}

\* a request with a method that is not safe, on a path that is not exempt
Protected(c, h) ==
  \/ resp'.op = "profile" /\ PutProfile(c, h, [venmo |-> Venmo])
  \/ resp'.op \in {"create-user", "none"} /\ \E b \in AdminCreateBodies : CreateUser(c, h, b)
  \/ resp'.op = "patch-user" /\ \E id \in UserIds, b \in AdminPatchBodies : PatchUser(c, h, id, b)
  \/ resp'.op = "delete-user" /\ \E id \in UserIds : DeleteUser(c, h, id)
  \/ resp'.op \in {"reset-password", "none"} /\ \E id \in UserIds : ResetPassword(c, h, id, PwHorse)
  \/ resp'.op = "unrouted" /\ \E m \in AdminMethods \ SafeMethods, pa \in OtherPaths :
        Unrouted(m, pa, c, h)

CsrfRefusedNothingChanges ==
  (resp = NoResp /\ served' # served) =>
    \A c \in Cookies : \A h \in Headers(c) :
      \/ resp'.status = Rejection(c) /\ UNCHANGED <<users, sessions, tokens, pending>>
      \/ ~(BadCsrf(c, h) /\ Protected(c, h))

CsrfRefused ==
  (resp = NoResp /\ served' # served) =>
    \A c \in Cookies : \A h \in Headers(c) :
      \/ /\ resp'.status = Rejection(c)
         /\ UNCHANGED <<users, tokens, pending>>
         /\ sessions' = LazilyExpired(sessions, c)
      \/ ~(BadCsrf(c, h) /\ Protected(c, h))

TargetOf(n) == {id \in DOMAIN users : Lower(users[id].username) = Lower(n)}
PasswordUnset(id) == users[id].password_hash = Null \/ users[id].must_set_password = 1

\* the setup flow: a token that was never issued before, and nothing else
SetupFlow(id) ==
  /\ resp'.status = 200 /\ resp'.needsPasswordSet
  /\ resp'.error # "invalid_credentials"
  /\ resp'.setupToken \notin SetupTokens
  /\ \E t \in tokens' : t.id = resp'.setupToken /\ t.user_id = id
  /\ resp'.cookie = Null /\ Stored(sessions') \subseteq Stored(sessions)
  /\ SessionsOf(sessions', id) = SessionsOf(sessions, id)
  /\ users'[id] = users[id]
  /\ pending' = pending

LoginWithoutPassword(pws) ==
  (resp = NoResp /\ served' # served /\ resp'.op \in {"login", "none"}) =>
    \A c \in Cookies, n \in LoginNames, p \in pws :
      \A id \in TargetOf(n) :
        (PasswordUnset(id) /\ Login(c, n, p)) => SetupFlow(id)

\* C5 as stated: a login for a stored user without a password, whatever the
\* submitted password, returns needsPasswordSet with a newly issued setup token,
\* never invalid_credentials, creates no session and leaves the user's sessions
\* and row unchanged.
C5_AsStated == [][LoginWithoutPassword(LoginPasswords)]_vars

\* C5: a login for a stored user without a password, with a submitted password
\* of at most 256 characters, returns needsPasswordSet with a newly issued setup
\* token, never invalid_credentials, creates no session and leaves the user's
\* sessions and row unchanged.
C5_LoginWithoutPassword ==
  [][LoginWithoutPassword({p \in LoginPasswords : p.len <= MaxPasswordLen})]_vars

\* a user without a password has logged in and holds the token of the response
C5_Witness ==
  /\ resp.op = "login" /\ resp.needsPasswordSet
  /\ \E t \in tokens : t.id = resp.setupToken /\ PasswordUnset(t.user_id)

\* the answer to a login that did not authenticate
Denied == resp'.status = 401 /\ resp'.error = "invalid_credentials"

\* the continuation a login for user id leaves when the password is wrong
LeftFailing(id) ==
  \E r \in BagToSet(pending') :
    r.op = "login" /\ r.u.id = id /\ ~r.ok /\ pending' = pending (+) SetToBag({r})

\* the sessions table a request with cookie c may leave: the table as it was, or
\* the table without the expired row the cookie names
After(ss, c, lazily) == IF lazily THEN LazilyExpired(ss, c) ELSE ss

\* the login that does not authenticate: the request, then the step after verify
FailedLogin(pws, lazily) ==
  /\ (resp = NoResp /\ served' # served /\ resp'.op \in {"login", "none"}) =>
       \A c \in Cookies, n \in LoginNames, p \in pws :
         /\ (TargetOf(n) = {} /\ Login(c, n, p))
              => (/\ Denied
                  /\ UNCHANGED <<users, tokens, nextTid, pending>>
                  /\ sessions' = After(sessions, c, lazily))
         /\ \A id \in TargetOf(n) :
              (/\ ~PasswordUnset(id)
               /\ users[id].password_hash # Hash(p)
               /\ Login(c, n, p))
                => (/\ LeftFailing(id)
                    /\ UNCHANGED <<users, tokens, nextTid>>
                    /\ sessions' = After(sessions, c, lazily))
  /\ resp'.op = "login" =>
       \A r \in BagToSet(pending) :
         (r.op = "login" /\ ~r.ok /\ LoginResume(r))
           => (Denied /\ UNCHANGED <<users, sessions, tokens, nextTid>>)

HashOf(us, id) == IF id \in DOMAIN us THEN <<us[id].password_hash>> ELSE Null
FlagOf(us, id) == IF id \in DOMAIN us THEN <<us[id].must_set_password>> ELSE Null

\* a set-password presenting a token a set-password has succeeded with
TokenReuse(pws, lazily) ==
  (resp = NoResp /\ served' # served /\ resp'.op \in {"set-password", "none"}) =>
    \A c \in Cookies, p \in pws : \A k \in consumed :
      SetPassword(c, k.id, p)
        => (/\ resp'.status = 401 /\ resp'.error = "invalid_setup_token"
            /\ HashOf(users', k.user_id) = HashOf(users, k.user_id)
            /\ SessionsOf(sessions', k.user_id)
                 = SessionsOf(After(sessions, c, lazily), k.user_id)
            /\ pending' = pending)

\* C7 as stated: once a set-password presenting token T has succeeded, a later
\* set-password presenting T returns 401 invalid_setup_token and changes
\* neither the user's password hash nor the user's sessions.
C7_AsStated == [][TokenReuse(NewPasswords, FALSE)]_vars

SchemaPasswords ==
  {p \in NewPasswords : p.len >= MinPasswordLen /\ p.len <= MaxPasswordLen}

\* C7: once a set-password presenting token T has succeeded, a later
\* set-password presenting T with a password of 12 to 256 characters returns 401
\* invalid_setup_token, starts no hashing and changes neither the user's
\* password hash nor the user's sessions, except that authMiddleware deletes the
\* expired session row the cookie names.
C7_TokenReuse == [][TokenReuse(SchemaPasswords, TRUE)]_vars

\* the token of a successful set-password has been presented again and refused
C7_Witness ==
  /\ resp.op = "set-password" /\ resp.status = 401
  /\ consumed # {} /\ tokens = {}
  /\ \A k \in consumed : users[k.user_id].password_hash = Hash(PwHorse)

\* a set-password presenting a stored token that has expired
ExpiredToken(pws, lazily) ==
  (resp = NoResp /\ served' # served /\ resp'.op \in {"set-password", "none"}) =>
    \A c \in Cookies, p \in pws : \A k \in tokens :
      (k.expires_at <= now /\ SetPassword(c, k.id, p))
        => (/\ resp'.status = 401 /\ resp'.error = "invalid_setup_token"
            /\ tokens' = tokens \ {k}
            /\ HashOf(users', k.user_id) = HashOf(users, k.user_id)
            /\ FlagOf(users', k.user_id) = FlagOf(users, k.user_id)
            /\ SessionsOf(sessions', k.user_id)
                 = SessionsOf(After(sessions, c, lazily), k.user_id)
            /\ pending' = pending)

\* C8 as stated: a set-password presenting a stored token whose expires_at is
\* at most the current time returns 401 invalid_setup_token whatever the
\* password, deletes the token, and leaves the owner's password hash,
\* must_set_password and sessions unchanged.
C8_AsStated == [][ExpiredToken(NewPasswords, FALSE)]_vars

\* C8: a set-password presenting a stored token whose expires_at is at most the
\* current time, with a password of 12 to 256 characters, returns 401
\* invalid_setup_token, deletes the token, starts no hashing, and leaves the
\* owner's password hash, must_set_password and sessions unchanged, except that
\* authMiddleware deletes the expired session row the cookie names.
C8_ExpiredToken == [][ExpiredToken(SchemaPasswords, TRUE)]_vars

\* an expired token has been presented, refused and deleted
C8_Witness ==
  /\ resp.op = "set-password" /\ resp.status = 401
  /\ now > 1 /\ nextTid > 2 /\ tokens = {} /\ consumed = {}
  /\ \E id \in DOMAIN users : PasswordUnset(id)

\* the onboarding condition on a stored row
Onboarding(row) ==
  row.role = "user" /\ row.last_login_at = Null
    /\ (row.birthday = Null \/ row.venmo = Null)

\* the responses that carry needsSetup
CarriesNeedsSetup(r) ==
  r.op \in {"me", "profile", "login", "set-password"} /\ r.status = 200 /\ r.uid # 0

NeedsSetupOfStoredRow ==
  CarriesNeedsSetup(resp') =>
    /\ resp'.uid \in DOMAIN users'
    /\ resp'.needsSetup = Onboarding(users'[resp'.uid])

\* C9 as stated: the needsSetup of a response of GET /me, PUT /me/profile,
\* POST /login or POST /set-password is true exactly when the user's row, as
\* stored when the request completes, has role user, no last_login_at, and no
\* birthday or no venmo.
C9_AsStated == [][NeedsSetupOfStoredRow]_vars

\* what PUT /me/profile may change, for a caller authMiddleware has resolved
ProfileFrame ==
  resp'.op = "profile" =>
    \A c \in Cookies :
      ReqUser(c) # Null =>
        \A h \in Headers(c), b \in ProfileBodies :
          PutProfile(c, h, b) =>
            LET id == ReqUser(c).id
                old == users[id]
                new == users'[id]
            IN
            /\ DOMAIN users' = DOMAIN users
            /\ \A o \in DOMAIN users \ {id} : users'[o] = users[o]
            /\ sessions' = sessions /\ tokens' = tokens /\ pending' = pending
            /\ new.username = old.username /\ new.role = old.role
            /\ new.password_hash = old.password_hash
            /\ new.must_set_password = old.must_set_password
            /\ new.birthday = (IF "birthday" \in DOMAIN b /\ resp'.status = 200
                               THEN b.birthday ELSE old.birthday)
            /\ new.venmo = (IF "venmo" \in DOMAIN b /\ resp'.status = 200
                            THEN b.venmo ELSE old.venmo)
            /\ new.display_name = (IF "displayName" \in DOMAIN b /\ resp'.status = 200
                                   THEN b.displayName ELSE old.display_name)
            /\ \/ new.last_login_at = old.last_login_at
               \/ /\ old.last_login_at = Null /\ old.role = "user"
                  /\ new.birthday # Null /\ new.venmo # Null
                  /\ new.last_login_at = At(now)

\* C10: a PUT /me/profile of an authenticated caller changes, on the caller's
\* row, only the ones of birthday, venmo and display_name that the body holds,
\* and last_login_at when the update completes the onboarding; every other
\* field, every other user's row, every session and every token stays as it was.
C10_ProfileFrame == [][ProfileFrame]_vars

\* a profile update has completed the onboarding of a user
C10_Witness ==
  /\ resp.op = "profile" /\ resp.status = 200
  /\ resp.user.birthday = Birthday /\ resp.user.venmo = Venmo
  /\ resp.user.displayName = Null /\ resp.user.role = "user"
  /\ resp.lastLoginAt = At(2)

\* the row of a user-role account as POST /users inserts it without a password
FreshAccount(row) ==
  /\ row.role = "user" /\ row.password_hash = Null /\ row.must_set_password = 1
  /\ row.birthday = Null /\ row.venmo = Null /\ row.last_login_at = Null

\* the continuation a set-password for user id leaves
LeftHashing(id, p) ==
  \E r \in BagToSet(pending') :
    /\ r.op = "set-password" /\ r.u.id = id /\ r.u.needsSetup /\ r.hash = Hash(p)
    /\ pending' = pending (+) SetToBag({r})

\* login, set-password and the profile update of a fresh account, step by step
FirstLogin(loginPws, newPws) ==
  /\ (resp = NoResp /\ served' # served /\ resp'.op \in {"login", "none"}) =>
       \A c \in Cookies, p \in loginPws : \A id \in TargetOf("JANE") :
         (FreshAccount(users[id]) /\ Login(c, "JANE", p))
           => (/\ resp'.status = 200 /\ resp'.needsPasswordSet
               /\ \E t \in tokens' : t.id = resp'.setupToken /\ t.user_id = id
               /\ resp'.cookie = Null /\ SessionsOf(sessions', id) = {})
  /\ (resp = NoResp /\ served' # served /\ resp'.op \in {"set-password", "none"}) =>
       \A c \in Cookies, p \in newPws : \A k \in tokens :
         (/\ k.user_id \in DOMAIN users /\ FreshAccount(users[k.user_id])
          /\ ~TokenExpired(k, now) /\ CanSuspend
          /\ SetPassword(c, k.id, p))
           => LeftHashing(k.user_id, p)
  /\ resp'.op = "set-password" =>
       \A r \in BagToSet(pending) :
         (/\ r.op = "set-password" /\ r.u.needsSetup
          /\ r.u.id \in DOMAIN users /\ users[r.u.id].last_login_at = Null
          /\ SetPasswordResume(r))
           => (/\ resp'.status = 200 /\ resp'.uid = r.u.id
               /\ \E s \in sessions' : s.id = resp'.cookie /\ s.user_id = r.u.id
               /\ resp'.needsSetup /\ resp'.lastLoginAt = Null
               /\ users'[r.u.id].last_login_at = Null
               /\ users'[r.u.id].password_hash = r.hash)
  /\ resp'.op = "profile" =>
       \A c \in Cookies :
         (ReqUser(c) # Null /\ ReqUser(c).role = "user" /\ ReqUser(c).lastLoginAt = Null) =>
           \A h \in Headers(c) :
             (/\ Gate("PUT", "/me/profile", c, h, FALSE) = 0
              /\ PutProfile(c, h, [birthday |-> Birthday, venmo |-> Venmo]))
               => (/\ resp'.status = 200 /\ ~resp'.needsSetup
                   /\ resp'.lastLoginAt = At(now)
                   /\ users'[ReqUser(c).id].last_login_at = At(now))
  /\ resp'.op = "me" =>
       \A c \in Cookies :
         (ReqUser(c) # Null /\ ReqUser(c).lastLoginAt # Null /\ GetMe(c))
           => (resp'.status = 200 /\ ~resp'.needsSetup /\ resp'.lastLoginAt # Null)

\* the stamped last_login_at of a user-role account stays on the row as long as
\* the row exists
StampKept ==
  \A id \in DOMAIN users \cap DOMAIN users' :
    (users[id].role = "user" /\ users[id].last_login_at # Null)
      => users'[id].last_login_at # Null

\* C11 as stated: for a user-role account created without a password, a login
\* with any password yields a setup token and no session; set-password with an
\* unexpired token of the account and any password of at least 12 characters
\* yields a session with needsSetup true and last_login_at null; the profile
\* update supplying birthday and venmo stamps last_login_at; and from then on
\* last_login_at stays stamped, so that every later GET /me returns needsSetup
\* false.
C11_AsStated == [][FirstLogin(OnboardPasswords, OnboardPasswords) /\ StampKept]_vars

\* C11: the same with passwords of at most 256 characters at login and of 12 to
\* 256 characters at set-password, and with last_login_at staying stamped in
\* every step that is not an admin PATCH of the user.
C11_FirstLogin ==
  [][/\ FirstLogin({p \in OnboardPasswords : p.len <= MaxPasswordLen},
                   {p \in OnboardPasswords : p.len >= MinPasswordLen /\ p.len <= MaxPasswordLen})
     /\ (resp'.op # "patch-user" => StampKept)]_vars

\* a user who set a password in this run and completed the profile reads GET /me
C11_Witness ==
  /\ resp.op = "me" /\ resp.status = 200 /\ ~resp.needsSetup
  /\ resp.user.role = "user" /\ resp.user.birthday = Birthday /\ resp.user.venmo = Venmo
  /\ resp.lastLoginAt # Null
  /\ \E k \in consumed : k.user_id = resp.uid

\* the completion of a login whose password verified, for a user still stored
OverlappingLogins ==
  resp'.op = "login" =>
    \A r \in BagToSet(pending) :
      (r.op = "login" /\ r.ok /\ r.u.id \in DOMAIN users /\ LoginResume(r))
        => (/\ resp'.status = 200 /\ resp'.uid = r.u.id
            /\ resp'.cookie \notin {i.id : i \in issued}
            /\ \E s \in sessions' :
                 /\ s.id = resp'.cookie /\ SessionsOf(sessions', r.u.id) = {s}
                 /\ s.expires_at > now'
            /\ \A c \in IssuedFor(r.u.id) : ReqSession(c)' = Null)

\* C12: every login with the correct password for a stored user returns a
\* session, also while another such login for the same user is suspended; when
\* it completes, the user's only session row is the one it created, and no
\* session id issued for the user before, the one returned to an overlapping
\* login included, resolves any longer.
C12_OverlappingLogins == [][OverlappingLogins]_vars

\* of two logins for one user suspended together, the first to complete has
\* been given its session and the other is about to replace it
C12_Witness ==
  /\ resp.op = "login" /\ resp.status = 200
  /\ \E s \in sessions : s.id = resp.cookie /\ s.user_id = resp.uid
  /\ \E r \in BagToSet(pending) : r.op = "login" /\ r.ok /\ r.u.id = resp.uid

\* what POST /login answers for a username that is not stored
UnknownUser(n, p) ==
  IF LoginSchemaOk(n, p) THEN Reply("login", 401, "invalid_credentials")
  ELSE Reply("login", 400, "invalid_request")

\* a login for a stored user with a password that is not the user's is answered
\* as it is in the store without that user
LoginHidesUsers ==
  /\ (resp = NoResp /\ served' # served /\ resp'.op \in {"login", "none"}) =>
       \A c \in Cookies, n \in LoginNames, p \in LoginPasswords :
         \A id \in TargetOf(n) :
           (users[id].password_hash # Hash(p) /\ Login(c, n, p))
             => (resp' = UnknownUser(n, p) \/ LeftFailing(id))
  /\ resp'.op = "login" =>
       \A r \in BagToSet(pending) :
         (r.op = "login" /\ ~r.ok /\ LoginResume(r))
           => \E n \in LoginNames, p \in LoginPasswords : resp' = UnknownUser(n, p)

\* C13 as stated: in two stores that differ only in whether user X is stored, a
\* login for X with a password that is not X's password is answered with the
\* same status and the same body.
C13_AsStated == [][LoginHidesUsers]_vars

\* what POST /logout does with the cookie, whatever the x-csrf-token
LogoutFrame ==
  (resp = NoResp /\ served' # served /\ resp'.op = "logout") =>
    \A c \in Cookies : \A h \in Headers(c) :
      Logout(c, h)
        => (/\ resp'.status = 200 /\ resp'.error = "none"
            /\ sessions' = {s \in sessions : s.id # c}
            /\ UNCHANGED <<users, tokens, pending>>
            /\ ReqSession(c)' = Null)

RowsOf(c) == {s \in sessions : s.id = c}
CurrentView(id) ==
  [id |-> id, username |-> users[id].username, displayName |-> users[id].display_name,
   role |-> users[id].role, birthday |-> users[id].birthday, venmo |-> users[id].venmo,
   lastLoginAt |-> users[id].last_login_at]

\* the identity authMiddleware attaches, as GET /me shows it
SessionLookup ==
  /\ \A c \in Cookies :
       (ReqUser(c) # Null /\ ReqSession(c) # Null)
         <=> (\E s \in RowsOf(c) : s.expires_at > now)
  /\ resp'.op = "me" =>
       \A c \in Cookies :
         GetMe(c)
           => (/\ resp'.status = (IF \E s \in RowsOf(c) : s.expires_at > now THEN 200 ELSE 401)
               /\ sessions' = {s \in sessions : ~(s.id = c /\ s.expires_at <= now)}
               /\ \A s \in RowsOf(c) :
                    s.expires_at > now
                      => (resp'.user = CurrentView(s.user_id) /\ resp'.uid = s.user_id)
               /\ UNCHANGED <<users, tokens, pending>>)

\* C15: authMiddleware attaches an identity exactly when a session row with the
\* id of the cookie exists and its expires_at is greater than the current time;
\* a row whose expires_at is at most the current time is deleted by the lookup
\* and the request is answered as unauthenticated; the role and the profile
\* fields attached are those the users row holds at the lookup.
C15_SessionLookup == [][SessionLookup]_vars

\* GET /me with a session issued before this run shows the birthday and venmo
\* the row has been given since
C15_Witness ==
  /\ resp.op = "me" /\ resp.status = 200
  /\ nextSid = 3 /\ resp.uid = 2
  /\ resp.user.birthday = Birthday /\ resp.user.venmo = Venmo

\* C16 as stated: in every state, the administrator bootstrapped from the
\* configured username included, no two users have usernames that are equal
\* ignoring case.
C16_AsStated ==
  \A a, b \in DOMAIN users :
    a # b => Lower(users[a].username) # Lower(users[b].username)

\* every row of sessions, password_set_tokens and updates names a stored user
Owners(rows) == {r.user_id : r \in rows}
Referential ==
  Owners(sessions) \cup Owners(tokens) \cup Owners(updates) \subseteq DOMAIN users

\* DELETE /users/:id and the requests of the deleted user that resume after it
DeleteCascades ==
  /\ Referential /\ Referential'
  /\ (resp'.op = "delete-user" /\ resp'.status = 200) =>
       \A id \in DOMAIN users \ DOMAIN users' :
         /\ sessions' = {r \in sessions : r.user_id # id}
         /\ tokens' = {r \in tokens : r.user_id # id}
         /\ updates' = {r \in updates : r.user_id # id}
  /\ resp'.op \in {"login", "set-password"} =>
       \A r \in BagToSet(pending) :
         (r.op \in {"login", "set-password"} /\ r.u.id \notin DOMAIN users
          /\ (LoginResume(r) \/ SetPasswordResume(r)))
           => (/\ resp'.cookie = Null /\ resp'.status # 200
               /\ Stored(sessions') \subseteq Stored(sessions)
               /\ r.u.id \notin DOMAIN users')

\* C17: in every state every session, setup token and update names a stored
\* user; a successful DELETE /admin/users/:id removes the user with all of the
\* user's sessions, setup tokens and updates and no other row; and a login or
\* set-password of the deleted user that resumes after the deletion creates no
\* session and returns none.
C17_DeleteCascades == [][DeleteCascades]_vars

\* user 2 posted an update and was deleted while a login or set-password of
\* theirs was suspended; the request has resumed and failed
C17_Witness ==
  /\ resp.op \in {"login", "set-password"} /\ resp.status = 500
  /\ 2 \notin DOMAIN users /\ nextUpd > 1 /\ updates = {}
  /\ \A s \in sessions : s.user_id = 1

\* C18: in every state and for every user, password_hash is null exactly when
\* must_set_password is 1.
C18_FlagMatchesHash ==
  \A id \in DOMAIN users :
    (users[id].password_hash = Null) <=> (users[id].must_set_password = 1)

\* a user without a password was issued a token by a login of this run and has
\* set a password with it
C18_Witness ==
  /\ resp.op = "set-password" /\ resp.status = 200
  /\ users[resp.uid].password_hash = Hash(PwHorse)
  /\ users[resp.uid].must_set_password = 0
  /\ \E k \in consumed : k.user_id = resp.uid /\ k.id # TokOf(1)

TokensOf(ts, userId) == {t \in ts : t.user_id = userId}
OneTokenPerUser(ts) == \A t1, t2 \in ts : t1.user_id = t2.user_id => t1 = t2

\* a set-password request presenting a token that is not stored
UnstoredTokenRefused ==
  (resp = NoResp /\ served' # served /\ resp'.op = "set-password") =>
    \A c \in Cookies, p \in NewPasswords : \A tok \in SetupTokens :
      ((\A t \in tokens : t.id # tok) /\ SetPassword(c, tok, p))
        => (/\ resp'.status \in {400, 401}
            /\ UNCHANGED <<users, tokens, pending>>
            /\ Stored(sessions') \subseteq Stored(sessions))

\* the login that issues a token, and a set-password presenting a token that
\* is no longer stored
TokenSuperseded ==
  /\ OneTokenPerUser(tokens) /\ OneTokenPerUser(tokens')
  /\ (resp = NoResp /\ served' # served /\ resp'.op = "login" /\ resp'.needsPasswordSet) =>
       \E id \in DOMAIN users :
         /\ TokensOf(tokens', id) = {t \in tokens' : t.id = resp'.setupToken}
         /\ Cardinality(TokensOf(tokens', id)) = 1
         /\ \A t \in tokens : t.user_id = id <=> t \notin tokens'
         /\ resp'.setupToken \notin SetupTokens
  /\ UnstoredTokenRefused

\* C19: in every state each user has at most one setup token row; the login
\* that issues a token to a user without a password deletes every earlier
\* token of that user and of nobody else, and a set-password presenting a token
\* that was issued and is no longer stored is refused and changes no user, no
\* token and starts no hashing.
C19_TokenSuperseded == [][TokenSuperseded]_vars

\* two logins of this run have each issued user 2 a token, the second has
\* deleted the token of the first, and a set-password presenting a token other
\* than the stored one has been refused
C19_Witness ==
  /\ resp.op = "set-password" /\ resp.status = 401
  /\ served = 3 /\ now = 1 /\ nextTid = 4
  /\ tokens = {[id |-> TokOf(3), user_id |-> 2, expires_at |-> 1 + TokenTtl]}

\* the step that completes an admin reset-password for a stored user
ResetCompletes ==
  /\ resp'.op = "reset-password" =>
       \A r \in BagToSet(pending) :
         (r.op = "reset-password" /\ r.id \in DOMAIN users /\ ResetPasswordResume(r))
           => (/\ resp'.status = 200
               /\ users'[r.id].password_hash = r.hash /\ r.hash # Null
               /\ users'[r.id].must_set_password = 0
               /\ SessionsOf(sessions', r.id) = {} /\ TokensOf(tokens', r.id) = {}
               /\ \A s \in sessions : s.user_id # r.id => s \in sessions'
               /\ \A t \in tokens : t.user_id # r.id => t \in tokens')
  \* a token id that has left the table never comes back, and is refused
  /\ \A tok \in SetupTokens :
       (\A t \in tokens : t.id # tok) => (\A t \in tokens' : t.id # tok)
  /\ UnstoredTokenRefused

\* C20: the step that completes an admin reset-password for a stored user U
\* leaves U with the new password hash and must_set_password 0, with no session
\* row and with no setup token row; a token that has left the table never
\* returns to it, and a set-password request presenting it after the reset is
\* refused.
C20_ResetCompletes == [][ResetCompletes]_vars

\* user 2 was issued a token by a login of this run, and an admin
\* reset-password for user 2 has completed and deleted it
C20_Witness ==
  /\ resp.op = "reset-password" /\ resp.status = 200
  /\ served = 2 /\ now = 1 /\ nextTid = 3 /\ tokens = {}
  /\ 2 \in DOMAIN users /\ users[2].password_hash = Hash(PwHorse)
  /\ users[2].must_set_password = 0

\* the completion of a login or set-password that returns a session
Completes(r) ==
  /\ r.op \in {"login", "set-password"} /\ r.u.id \in DOMAIN users
  /\ (LoginResume(r) \/ SetPasswordResume(r))
  /\ resp'.status = 200

\* a stamped last_login_at is left alone by the user's later logins
StampFrozen ==
  resp'.op \in {"login", "set-password"} =>
    \A r \in BagToSet(pending) :
      (Completes(r) /\ users[r.u.id].last_login_at # Null)
        => users'[r.u.id].last_login_at = users[r.u.id].last_login_at

\* C21 as stated: once a user's last_login_at holds a non-null value, no later
\* successful login or set-password by that user changes it.
C21_AsStated == [][StampFrozen]_vars

\* what a successful login or set-password does to last_login_at
StampRenewed ==
  resp'.op \in {"login", "set-password"} =>
    \A r \in BagToSet(pending) :
      Completes(r)
        => (/\ users'[r.u.id].last_login_at =
                 (IF r.u.needsSetup THEN users[r.u.id].last_login_at ELSE At(now))
            /\ users[r.u.id].last_login_at # Null => users'[r.u.id].last_login_at # Null
            /\ (~r.u.needsSetup /\ users[r.u.id].last_login_at # At(now))
                 => users'[r.u.id].last_login_at # users[r.u.id].last_login_at)

\* C21: once a user's last_login_at holds a non-null value it stays non-null
\* through every successful login and set-password by that user, and each of
\* them that read the row without the onboarding condition sets it to the time
\* at which it completes; only one that read the row while the onboarding
\* condition held leaves it as it is.
C21_StampRenewed == [][StampRenewed]_vars

\* the administrator, stamped at time 1 in an earlier run, has logged in at
\* time 2 and is stamped with 2
C21_Witness ==
  /\ resp.op = "login" /\ resp.status = 200 /\ resp.uid = 1 /\ now = 2
  /\ users[1].last_login_at = At(2)
  /\ \E i \in issued : i.user_id = 1 /\ i.id = SidOf(1)

\* the accounts of role user whose last_login_at a step takes from null to a value
FirstStamped ==
  {id \in DOMAIN users \cap DOMAIN users' :
     /\ users[id].role = "user" /\ users'[id].role = "user"
     /\ users[id].last_login_at = Null /\ users'[id].last_login_at # Null}

\* C22 as stated: the last_login_at of a user-role account goes from null to
\* non-null only in a step after which the stored row holds both a birthday and
\* a venmo, whichever operation writes it.
C22_AsStated ==
  [][\A id \in FirstStamped : users'[id].birthday # Null /\ users'[id].venmo # Null]_vars

\* the writes of a set-password, between the states other requests can see
SetPasswordAtomic ==
  /\ \A k \in consumed' : \A t \in tokens' : t.id # k.id
  /\ resp'.op = "set-password" =>
       \A r \in BagToSet(pending) :
         (r.op = "set-password" /\ r.u.id \in DOMAIN users /\ SetPasswordResume(r))
           => (/\ resp'.status = 200
               /\ users'[r.u.id].password_hash = r.hash
               /\ users'[r.u.id].must_set_password = 0
               /\ \A t \in tokens' : t.id # r.token
               /\ \E s \in sessions' :
                    s.id = resp'.cookie /\ SessionsOf(sessions', r.u.id) = {s}
               /\ \A c \in IssuedFor(r.u.id) : ReqSession(c)' = Null)
  /\ \A id \in DOMAIN users \cap DOMAIN users' :
       users'[id].password_hash # users[id].password_hash
         => (/\ resp'.op \in {"set-password", "reset-password"} /\ resp'.status = 200
             /\ users'[id].must_set_password = 0
             /\ \A s \in SessionsOf(sessions', id) : s \notin sessions)

\* C23: the step in which a successful set-password stores the hash also clears
\* must_set_password, deletes the token, deletes the user's sessions and inserts
\* the new one, so that no state any request can observe holds the new hash
\* together with the consumed token or with a session of the user that was
\* issued before.
C23_SetPasswordAtomic == [][SetPasswordAtomic]_vars

\* a set-password has completed while another request is suspended
C23_Witness ==
  /\ resp.op = "set-password" /\ resp.status = 200 /\ pending # EmptyBag
  /\ users[resp.uid].password_hash = Hash(PwHorse)
  /\ \A t \in tokens : t.user_id # resp.uid
  /\ \A s \in sessions : s.user_id = resp.uid => s.id = resp.cookie

\* a column of the users row and the field of the PATCH body that writes it
Patched(b, field, old, new) ==
  new = (IF field \in DOMAIN b
         THEN (IF field = "username" THEN Lower(b[field]) ELSE b[field])
         ELSE old)

\* the answer PATCH /users/:id owes an administrator who sent the CSRF token
PatchAnswer(id, b) ==
  IF DOMAIN b = {} THEN <<400, "invalid_request">>
  ELSE IF id \notin DOMAIN users THEN <<404, "not_found">>
  ELSE IF DemotesSoleAdmin(id, b) THEN <<409, "cannot_remove_last_admin">>
  ELSE IF "username" \in DOMAIN b
          /\ \E o \in DOMAIN users \ {id} : users[o].username = Lower(b.username)
  THEN <<409, "username_taken">>
  ELSE <<200, "none">>

\* what PATCH /users/:id changes, for a caller who is an administrator
PatchFrame ==
  resp'.op = "patch-user" =>
    \A c \in Cookies :
      RequireAdmin(c) = 0 =>
        \A h \in Headers(c), id \in UserIds, b \in FramePatchBodies :
          PatchUser(c, h, id, b) =>
            /\ sessions' = sessions /\ tokens' = tokens /\ pending' = pending
            /\ DOMAIN users' = DOMAIN users
            /\ \A o \in DOMAIN users :
                 /\ users'[o].password_hash = users[o].password_hash
                 /\ users'[o].must_set_password = users[o].must_set_password
                 /\ o # id => users'[o] = users[o]
            /\ resp'.status # 200 => users' = users
            /\ h = ReqSession(c).csrf_token
                 => <<resp'.status, resp'.error>> = PatchAnswer(id, b)
            /\ resp'.status = 200 =>
                 /\ Patched(b, "username", users[id].username, users'[id].username)
                 /\ Patched(b, "displayName", users[id].display_name, users'[id].display_name)
                 /\ Patched(b, "role", users[id].role, users'[id].role)
                 /\ Patched(b, "birthday", users[id].birthday, users'[id].birthday)
                 /\ Patched(b, "venmo", users[id].venmo, users'[id].venmo)
                 /\ Patched(b, "lastLoginAt", users[id].last_login_at, users'[id].last_login_at)

\* C24: a PATCH /users/:id of an administrator writes, on the target row only,
\* the fields the body holds and leaves the others; it is answered 404 for an
\* unknown id, 409 for a username another row holds and 409 for demoting the
\* only admin, and then the store is unchanged; it changes no password hash and
\* no must_set_password, and no session or setup token is created or deleted.
C24_PatchFrame == [][PatchFrame]_vars

\* the first request of the run was a PATCH that gave user 2 a birthday and a
\* venmo, on a store that holds a session and a setup token
C24_Witness ==
  /\ resp.op = "patch-user" /\ resp.status = 200 /\ served = 1
  /\ 2 \in DOMAIN users
  /\ users[2].birthday = Birthday /\ users[2].venmo = Venmo
  /\ users[2].last_login_at = Null /\ users[2].password_hash = Null
  /\ sessions # {} /\ tokens # {}

\* a request to a route of /api/admin
AdminRequest(c, h) ==
  \/ resp'.op = "list-users" /\ ListUsers(c)
  \/ resp'.op \in {"create-user", "none"} /\ \E b \in GuardCreateBodies : CreateUser(c, h, b)
  \/ resp'.op = "patch-user" /\ \E id \in UserIds, b \in GuardPatchBodies : PatchUser(c, h, id, b)
  \/ resp'.op = "delete-user" /\ \E id \in UserIds : DeleteUser(c, h, id)
  \/ resp'.op \in {"reset-password", "none"} /\ \E id \in UserIds : ResetPassword(c, h, id, PwHorse)

\* the role, as stored now, of the user whose live session the cookie names
AdminCaller(c) ==
  \E s \in sessions :
    /\ s.id = c /\ s.expires_at > now
    /\ s.user_id \in DOMAIN users /\ users[s.user_id].role = "admin"
LiveCaller(c) == \E s \in sessions : s.id = c /\ s.expires_at > now

AdminGuardNothingChanges ==
  (resp = NoResp /\ served' # served) =>
    \A c \in Cookies : \A h \in Headers(c) :
      \/ AdminCaller(c)
      \/ /\ resp'.status = (IF LiveCaller(c) THEN 403 ELSE 401)
         /\ UNCHANGED <<users, sessions, tokens, updates, pending>>
      \/ ~AdminRequest(c, h)

AdminGuard ==
  (resp = NoResp /\ served' # served) =>
    \A c \in Cookies : \A h \in Headers(c) :
      \/ AdminCaller(c)
      \/ /\ resp'.status = (IF LiveCaller(c) THEN 403 ELSE 401)
         /\ UNCHANGED <<users, tokens, updates, pending>>
         /\ sessions' = LazilyExpired(sessions, c)
      \/ ~AdminRequest(c, h)

\* C25 as stated: a request to /api/admin whose cookie does not name a live
\* session of a user stored with role admin is answered 401 without a live
\* session and 403 with one, and nothing in the store changes.
C25_AsStated == [][AdminGuardNothingChanges]_vars

\* C25: a request to /api/admin whose cookie does not name a live session of a
\* user stored with role admin at that moment is answered 401 without a live
\* session and 403 with one; no user, token or update row changes and no
\* handler starts, and the sessions table changes only by authMiddleware
\* deleting the expired row the cookie names. So an admin demoted by PATCH is
\* refused on the next admin request while the session row is still stored.
C25_AdminGuard == [][AdminGuard]_vars

\* the bootstrapped admin was demoted by PATCH, still holds a live session, and
\* the list of users has just been refused with 403
C25_Witness ==
  /\ resp.op = "list-users" /\ resp.status = 403 /\ resp.error = "forbidden"
  /\ served = 3
  /\ users[1].role = "user"
  /\ 2 \in DOMAIN users /\ users[2].role = "admin"
  /\ \E s \in sessions : s.user_id = 1 /\ s.expires_at > now
  /\ ~\E s \in sessions : s.user_id = 2

\* a set-password that succeeds presents a token no set-password succeeded with
TokenUsedOnce ==
  (resp = NoResp /\ resp'.op = "set-password" /\ resp'.status = 200) =>
    \A r \in BagToSet(pending) :
      (r.op = "set-password" /\ SetPasswordResume(r))
        => \A k \in consumed : k.id # r.token

\* C26 as stated: for every setup token at most one set-password presenting it
\* succeeds, also when two of them looked the token up before either finished
\* hashing: a set-password that stores a hash and is issued a session presents
\* a token that no earlier set-password has succeeded with.
C26_AsStated == [][TokenUsedOnce]_vars

\* a login that is issued a session was verified against the stored hash: every
\* login of SpecCredentials supplies PwHorse
LoginAgainstCurrentHash ==
  (resp = NoResp /\ resp'.op = "login" /\ resp'.status = 200) =>
    \A s \in sessions' \ sessions :
      users'[s.user_id].password_hash = Hash(PwHorse)

\* C27 as stated: when a reset-password for a user completes while a login for
\* that user, which supplied the previous password, is suspended in the
\* verification, the login leaves the user no session: a session row is
\* inserted by a login only for a user whose stored hash is the hash of the
\* password the login supplied.
C27_AsStated == [][LoginAgainstCurrentHash]_vars

\* C28 as stated: in every reachable state a setup token row is stored only for
\* a user without a password: no user with a stored password hash owns a
\* setup token.
C28_AsStated ==
  \A t \in tokens :
    t.user_id \in DOMAIN users => users[t.user_id].password_hash = Null

\* C29 as stated: in every reachable state every account with role admin has a
\* password: a stored hash and must_set_password = 0.
C29_AsStated ==
  \A id \in DOMAIN users :
    users[id].role = "admin" =>
      users[id].password_hash # Null /\ users[id].must_set_password = 0

\* the users whose live session the cookie names, and whether one of them may
\* write the update: its author, or a user stored with role admin
Requesters(c) == {s.user_id : s \in {x \in sessions : x.id = c /\ x.expires_at > now}}
MayWrite(c, id) ==
  \E uid \in Requesters(c) : \E u \in updates :
    u.id = id /\ (u.user_id = uid \/ users[uid].role = "admin")
UpdateStored(id) == \E u \in updates : u.id = id

\* the answer to a request that passed the session and CSRF checks
UpdateRefusal(c, h, id) ==
  /\ \A u \in updates : u.id # id => u \in updates'
  /\ updates' # updates => MayWrite(c, id)
  /\ (Requesters(c) # {} /\ h = ReqSession(c).csrf_token) =>
       /\ ~UpdateStored(id) => resp'.status = 404 /\ updates' = updates
       /\ (UpdateStored(id) /\ ~MayWrite(c, id)) => resp'.status = 403 /\ updates' = updates
       /\ MayWrite(c, id) => resp'.status = 200

UpdateGuard ==
  (resp = NoResp /\ served' # served /\ resp'.op \in {"put-update", "delete-update"}) =>
    \A c \in Cookies : \A h \in Headers(c), id \in UpdateIds :
      /\ (resp'.op = "put-update" /\ PutUpdate(c, h, id, [date |-> "2026-12-24", title |-> "party"]))
           => /\ UpdateRefusal(c, h, id)
              /\ resp'.status = 200 =>
                   \E u \in updates' : u.id = id /\ u.date = "2026-12-24" /\ u.title = "party"
      /\ (resp'.op = "put-update" /\ PutUpdate(c, h, id, [title |-> "no date"]))
           => updates' = updates /\ resp'.status # 200
      /\ (resp'.op = "delete-update" /\ DeleteUpdate(c, h, id))
           => /\ UpdateRefusal(c, h, id)
              /\ resp'.status = 200 => ~\E u \in updates' : u.id = id

\* C30: PUT and DELETE /api/updates/:id change or remove the update only when
\* the requester's live session belongs to the update's author or to a user
\* stored with role admin at the time of the request; with a session and its
\* CSRF token and a body the schema accepts, any other requester is answered
\* 403 and an unknown id 404, and the updates table is unchanged; no request
\* touches an update other than the one it names.
C30_UpdateGuard == [][UpdateGuard]_vars

\* jane, who is not an admin, has just been refused the edit of an update the
\* admin wrote, and the update is as it was posted
C30_Witness ==
  /\ resp.op = "put-update" /\ resp.status = 403 /\ resp.error = "forbidden"
  /\ served = 2
  /\ 2 \in DOMAIN users /\ users[2].role = "user"
  /\ \E s \in sessions : s.user_id = 2 /\ s.expires_at > now
  /\ updates = {[id |-> UpdOf(1), user_id |-> 1, date |-> "2026-11-02", title |-> "dinner"]}
====
